---- MODULE Spec2Model ----
(***************************************************************************)
(* The request dispatcher of the Timbal SDK: ApiClient.makeRequest, its    *)
(* error classification and its retry loop (lib/api), the configuration    *)
(* merge (lib/utils deepMerge) and the transport it talks to.              *)
(*                                                                         *)
(* One dispatch is one call of a public request method.  Every await of    *)
(* makeRequest is a place where the dispatch is suspended, so a dispatch   *)
(* is in one of: "idle" (not called yet), "fetch" (await fetch), "body"    *)
(* (await response.json), "sleep" (await sleep), "returned", "raised".     *)
(***************************************************************************)
EXTENDS Integers, Sequences, FiniteSets, TLC

\* ------------------------------------------------------------- bounds

\* The largest retryAttempts a caller passes to the constructor.
MaxRetryAttempts == 2

\* ------------------------------------------------------------- values

\* JavaScript's undefined, for the string-valued fields.
Undefined == "undefined"

\* The dispatches of the model; a specification runs those it names.
Calls == {"a", "b"}

\* a || b on strings: undefined and "" are falsy.
Truthy(s) == s # Undefined /\ s # ""

OrElse(a, b) == IF Truthy(a) THEN a ELSE b

\* ------------------------------------------------------ configuration

\* constants.ts is not among the sources; the values are the documented ones.
DEFAULT_CONFIG ==
    [baseUrl |-> <<"h", "o", "s", "t">>,
     timeout |-> 30000,
     retryAttempts |-> 3,
     retryDelay |-> 1000]

ERROR_CODES ==
    [TIMEOUT_ERROR |-> "TIMEOUT_ERROR",
     NETWORK_ERROR |-> "NETWORK_ERROR",
     SERVER_ERROR |-> "SERVER_ERROR"]

\* deepMerge(target, source): a copy of target in which every key of source
\* is overwritten.  No configuration value is an object, so the recursive
\* branch (line 34) is never taken.
deepMerge(target, source) ==
    [k \in DOMAIN target \cup DOMAIN source |->
        IF k \in DOMAIN source THEN source[k] ELSE target[k]]

\* An object literal: the keys given with a value, and the keys given with
\* the value undefined.
Literal(given, undefs) == [given |-> given, undefined |-> undefs]

\* An object is modelled by the function from its keys with a defined value
\* to those values: reading a key it lacks gives undefined, as reading a key
\* whose value is undefined does.
Without(obj, ks) == [k \in DOMAIN obj \ ks |-> obj[k]]

\* Mutant: the keys of the source whose value is undefined are skipped.
deepMergeLiteral_SkipUndefined(target, lit) == deepMerge(target, lit.given)

\* deepMerge(target, lit): Object.keys(source) lists the keys whose value is
\* undefined too, and result[key] = sourceValue (line 37) writes undefined.
deepMergeLiteral(target, lit) == Without(deepMerge(target, lit.given), lit.undefined)

\* No updateConfig call yet.
NoUpdate == [lit |-> Literal(<<>>, {}), before |-> <<>>]

\* A function with the keys ks of the record r (an object literal that leaves
\* the optional keys out).
Pick(r, ks) == [k \in ks |-> r[k]]

\* The configuration objects callers construct a client with: apiKey is
\* required, every other key is optional.
UserConfigs ==
    LET full == [apiKey : {"key"},
                 timeout : {50},
                 retryAttempts : 0..MaxRetryAttempts,
                 retryDelay : {100}]
    IN  { Pick(r, {"apiKey"} \cup opt) :
            r \in full,
            opt \in {{}, {"retryDelay"}, {"retryAttempts"},
                     {"retryAttempts", "retryDelay"},
                     {"retryAttempts", "retryDelay", "timeout"}} }

\* ---------------------------------------------------------- transport

\* What response.json() finds in a response body: a JSON object, JSON null,
\* text that is not JSON (an empty body included), a stream that the
\* transport breaks before the end ("aborted"), or a stream that never ends
\* ("stalled").
Body(kind, data, message, err, code, details) ==
    [kind |-> kind, data |-> data, message |-> message, error |-> err,
     code |-> code, details |-> details]

MalformedBody == Body("malformed", Undefined, Undefined, Undefined, Undefined, Undefined)
AbortedBody == Body("aborted", Undefined, Undefined, Undefined, Undefined, Undefined)
NullBody == Body("null", Undefined, Undefined, Undefined, Undefined, Undefined)
StalledBody == Body("stalled", Undefined, Undefined, Undefined, Undefined, Undefined)

SuccessBodies ==
    { Body("object", "rows", Undefined, Undefined, Undefined, Undefined),
      NullBody, MalformedBody, AbortedBody }

ErrorBodies ==
    { Body("object", Undefined, "msgA", Undefined, "CODE_A", "detA"),
      Body("object", Undefined, "msgB", "errB", Undefined, Undefined),
      Body("object", Undefined, "", "errC", "CODE_C", Undefined),
      Body("object", Undefined, Undefined, Undefined, Undefined, Undefined),
      NullBody, MalformedBody, AbortedBody }

SuccessStatuses == {200, 204}
ClientStatuses == {400, 404}
ServerStatuses == {500, 503}

\* response.ok
Ok(status) == status >= 200 /\ status <= 299

\* HTTP/1.1 responses carry a reason phrase, HTTP/2 responses an empty one.
StatusTexts == {"", "reason"}

Response(status, statusText, body) ==
    [status |-> status, statusText |-> statusText, body |-> body]

NoResponse == Response(0, "", MalformedBody)

\* The responses of the modelled transport.  The status text is read only
\* when the error body is not a JSON object, so only those vary it.
Responses ==
    { Response(s, "", b) : s \in SuccessStatuses, b \in SuccessBodies }
    \cup { Response(s, "reason", b) :
             s \in ClientStatuses \cup ServerStatuses,
             b \in { x \in ErrorBodies : x.kind = "object" } }
    \cup { Response(s, t, b) :
             s \in ClientStatuses \cup ServerStatuses, t \in StatusTexts,
             b \in { x \in ErrorBodies : x.kind # "object" } }

\* The messages of the TypeError a failing transport rejects fetch with.
NetworkMessages == {"fetch failed", "ECONNRESET"}

\* --------------------------------------------------------- exceptions

\* new TimbalApiError(message, statusCode, code, details)
TimbalApiError(message, statusCode, code, details) ==
    [name |-> "TimbalApiError", message |-> message, statusCode |-> statusCode,
     code |-> code, details |-> details]

\* Any other exception: its name (the class for the built-in errors) and message.
JsError(name, message) == [name |-> name, message |-> message]

NoError == [name |-> "none"]

\* Mutant: the envelope reports 200 whatever the response's status was.
Envelope_FixedStatus(data, statusCode) ==
    [data |-> data, success |-> TRUE, statusCode |-> 200]

\* The success envelope makeRequest returns.
Envelope(data, statusCode) ==
    [data |-> data, success |-> TRUE, statusCode |-> statusCode]

NoResult == [success |-> FALSE]

\* ------------------------------------------------------------ request

\* The endpoint of the modelled dispatches.
DefaultEndpoint == <<"/", "x">>

\* The arguments of makeRequest as the public methods pass them: the
\* endpoint, and of RequestInit the method (none given: Undefined), the body
\* and the caller headers (a list of name/value pairs; no headers is the
\* empty list).
Options(body, headers) ==
    [endpoint |-> DefaultEndpoint, method |-> Undefined, body |-> body,
     headers |-> headers]

\* The options o with the method m.
Via(o, m) == [o EXCEPT !.method = m]

NoBodyOption == [kind |-> "none", text |-> ""]

\* Header names the Headers constructor rejects with a TypeError (a name
\* that is not an HTTP token).
InvalidHeaderNames == {"bad name"}

\* Mutant: a multipart body is rejected before the dispatch.
HeadersThrow_FormData(o) == o.body.kind = "formdata"

\* new Headers(options.headers) throws.
HeadersThrow(o) == \E i \in 1..Len(o.headers) : o.headers[i][1] \in InvalidHeaderNames

\* The options of the modelled dispatches.
RequestOptions ==
    { Options(NoBodyOption, <<>>),
      Options(NoBodyOption, << <<"X-Custom-Header", "value">> >>),
      Options(NoBodyOption, << <<"bad name", "value">> >>) }

NoOptions == Options(NoBodyOption, <<>>)

\* A string body (the text may be empty), a FormData body, a Blob/File body.
StringBody(text) == [kind |-> "string", text |-> text]
FormDataBody == [kind |-> "formdata", text |-> ""]
BlobBody == [kind |-> "blob", text |-> ""]

\* options.body as a condition: undefined and '' are falsy, objects truthy.
BodyTruthy(b) == b.kind \in {"formdata", "blob"} \/ (b.kind = "string" /\ b.text # "")

\* Headers keeps every name in lower case.
Lower(name) ==
    CASE name \in {"Content-Type", "content-type", "CONTENT-TYPE"} -> "content-type"
      [] name \in {"Authorization", "authorization", "AUTHORIZATION"} -> "authorization"
      [] name = "X-Custom-Header" -> "x-custom-header"
      [] OTHER -> name

\* headers.set(name, value) on the header map h.
HeadersSet(h, name, value) ==
    [n \in DOMAIN h \cup {Lower(name)} |-> IF n = Lower(name) THEN value ELSE h[n]]

\* headers.append(name, value): a name already there gets the values joined.
HeadersAppend(h, name, value) ==
    IF Lower(name) \in DOMAIN h
    THEN HeadersSet(h, name, h[Lower(name)] \o ", " \o value)
    ELSE HeadersSet(h, name, value)

EmptyHeaders == [n \in {} |-> ""]

\* new Headers(list): every pair appended in order.
RECURSIVE NewHeaders(_)
NewHeaders(list) ==
    IF list = <<>> THEN EmptyHeaders
    ELSE LET n == Len(list)
         IN  HeadersAppend(NewHeaders(SubSeq(list, 1, n - 1)), list[n][1], list[n][2])

\* Mutant: the caller's headers are written first, the dispatcher's over them.
Overlay_DispatcherWins(own, caller) ==
    [n \in DOMAIN own \cup DOMAIN caller |->
        IF n \in DOMAIN own THEN own[n] ELSE caller[n]]

\* optHeaders.forEach((value, key) => headers.set(key, value)) (lines 166-174)
Overlay(own, caller) ==
    [n \in DOMAIN own \cup DOMAIN caller |->
        IF n \in DOMAIN caller THEN caller[n] ELSE own[n]]

\* Mutant: no default is applied.
NeedsJsonDefault_Never(b, h) == FALSE

\* Mutant: the default is applied whether or not the caller gave a type.
NeedsJsonDefault_NoHasCheck(b, h) == BodyTruthy(b) /\ b.kind = "string"

\* options.body && typeof options.body === 'string' && !headers.has('Content-Type')
NeedsJsonDefault(b, h) ==
    BodyTruthy(b) /\ b.kind = "string" /\ "content-type" \notin DOMAIN h

\* The headers of the outgoing request (lines 160-179).
BuildHeaders(o, cfg) ==
    LET own == HeadersSet(EmptyHeaders, "Authorization", "Bearer " \o cfg.apiKey)
        merged == Overlay(own, NewHeaders(o.headers))
    IN  IF NeedsJsonDefault(o.body, merged)
        THEN HeadersSet(merged, "Content-Type", "application/json")
        ELSE merged

\* Mutant: base and path are joined as they are.
BuildUrl_NoTrim(baseUrl, endpoint) == baseUrl \o endpoint

\* The URL of the outgoing request (lines 153-158); strings are lists of
\* characters, or of pieces with every "/" a piece of its own.
BuildUrl(baseUrl, endpoint) ==
    LET base == IF baseUrl # <<>> /\ baseUrl[Len(baseUrl)] = "/"
                THEN SubSeq(baseUrl, 1, Len(baseUrl) - 1)
                ELSE baseUrl
        path == IF endpoint # <<>> /\ endpoint[1] = "/"
                THEN endpoint
                ELSE <<"/">> \o endpoint
    IN  base \o path

\* The data given to post: nothing, or an object of string fields (a list
\* of key/value pairs).
NoData == [kind |-> "undefined", fields |-> <<>>]
ObjectData(fields) == [kind |-> "object", fields |-> fields]

\* JSON.stringify of a string.
Quote(str) == "\"" \o str \o "\""

\* The members of an object whose value is not undefined: JSON.stringify
\* leaves the others out.
RECURSIVE Defined(_)
Defined(fields) ==
    IF fields = <<>> THEN <<>>
    ELSE IF Len(fields[1]) = 2 /\ fields[1][2] = Undefined
    THEN Defined(Tail(fields))
    ELSE <<fields[1]>> \o Defined(Tail(fields))

\* JSON.stringify of the members of an object.  A member is <<key, string>>,
\* <<key, "object", members>>, <<key, "array", list of members lists>> or
\* <<key, "raw", text>> (true, false, null or a number).
RECURSIVE Members(_)
RECURSIVE Elements(_)
Member(f) ==
    Quote(f[1]) \o ":" \o
    (IF Len(f) = 2 THEN Quote(f[2])
     ELSE IF f[2] = "object" THEN "{" \o Members(f[3]) \o "}"
     ELSE IF f[2] = "array" THEN "[" \o Elements(f[3]) \o "]"
     ELSE f[3])
Members(fields) ==
    IF fields = <<>> THEN ""
    ELSE IF Len(fields) = 1 THEN Member(fields[1])
    ELSE Member(fields[1]) \o "," \o Members(Tail(fields))
Elements(items) ==
    IF items = <<>> THEN ""
    ELSE LET first == "{" \o Members(Defined(items[1])) \o "}"
         IN  IF Len(items) = 1 THEN first
             ELSE first \o "," \o Elements(Tail(items))

\* JSON.stringify(data)
Stringify(data) == "{" \o Members(Defined(data.fields)) \o "}"

\* post: body: data ? JSON.stringify(data) : undefined
PostOptions(data) ==
    Via(Options(IF data.kind = "object" THEN StringBody(Stringify(data))
                ELSE NoBodyOption,
                <<>>),
        "POST")

\* put and patch: as post, with their method.
PutOptions(data) == Via(PostOptions(data), "PUT")
PatchOptions(data) == Via(PostOptions(data), "PATCH")

\* get and delete: the method only (the query string of get is part of the
\* endpoint).
GetOptions == Via(Options(NoBodyOption, <<>>), "GET")
DeleteOptions == Via(Options(NoBodyOption, <<>>), "DELETE")

\* postFormData: the form is the body, no headers are given.
PostFormDataOptions == Via(Options(FormDataBody, <<>>), "POST")

\* postFile: the Content-Type header is given if contentType is truthy.
PostFileOptions(contentType) ==
    Via(Options(BlobBody,
                IF Truthy(contentType) THEN << <<"Content-Type", contentType>> >>
                ELSE <<>>),
        "POST")

\* postText: contentType defaults to 'text/plain' and is always given.
PostTextOptions(text, contentType) ==
    Via(Options(StringBody(text),
                << <<"Content-Type",
                     IF contentType = Undefined THEN "text/plain" ELSE contentType>> >>),
        "POST")

\* One call of each public method.
VariantOptions ==
    { GetOptions, DeleteOptions, PostFormDataOptions,
      PostOptions(ObjectData(<< <<"sql", "SELECT 1">> >>)),
      PutOptions(ObjectData(<< <<"a", "1">> >>)),
      PatchOptions(NoData),
      PostFileOptions("image/png"),
      PostTextOptions("a,b", "text/csv"),
      Via(Options(StringBody("{}"), << <<"X-Custom-Header", "value">> >>), "POST") }

\* What the public methods are called with, and so what they pass on.
MethodOptions ==
    {NoOptions, PostFormDataOptions}
    \cup { PostOptions(d) :
             d \in {NoData, ObjectData(<<>>), ObjectData(<< <<"sql", "SELECT 1">> >>),
                    ObjectData(<< <<"a", "1">>, <<"b", "2">> >>)} }
    \cup { PostFileOptions(t) : t \in {Undefined, "", "image/png"} }
    \cup { PostTextOptions(t, ct) :
             t \in {"", "a,b"}, ct \in {Undefined, "text/csv", "application/json"} }
    \cup { Options(b, h) :
             b \in {NoBodyOption, StringBody(""), StringBody("{}"), FormDataBody, BlobBody},
             h \in {<<>>,
                    << <<"content-type", "text/csv">> >>,
                    << <<"CONTENT-TYPE", "application/xml">> >>,
                    << <<"authorization", "Basic abc">> >>,
                    << <<"AUTHORIZATION", "Token t">>, <<"X-Custom-Header", "value">> >>,
                    << <<"Authorization", "first">>, <<"authorization", "second">> >>} }

\* The options o passed with the endpoint e.
At(o, e) == [o EXCEPT !.endpoint = e]

\* What makeRequest hands to fetch.
Sent(url, headers, body) == [url |-> url, headers |-> headers, body |-> body]

NoSent == Sent(<<>>, EmptyHeaders, NoBodyOption)

\* ---------------------------------------------------- error responses

\* Mutant: the error field of the error body is not looked at.
parseErrorResponse_NoErrorField(r) ==
    IF r.body.kind = "object"
    THEN [message |-> OrElse(r.body.message, "Unknown error"),
          statusCode |-> r.status,
          code |-> r.body.code,
          details |-> r.body.details]
    ELSE [message |-> OrElse(r.statusText, "Unknown error"),
          statusCode |-> r.status,
          code |-> Undefined,
          details |-> Undefined]

\* parseErrorResponse: the ApiError read from a non-ok response.  Reading
\* message off JSON null throws inside the try, like text that is not JSON
\* and like a broken stream, and the catch falls back to the status text.
parseErrorResponse(r) ==
    IF r.body.kind = "object"
    THEN [message |-> OrElse(OrElse(r.body.message, r.body.error), "Unknown error"),
          statusCode |-> r.status,
          code |-> r.body.code,
          details |-> r.body.details]
    ELSE [message |-> OrElse(r.statusText, "Unknown error"),
          statusCode |-> r.status,
          code |-> Undefined,
          details |-> Undefined]

\* Mutant: the parsed error body is not passed on to the error.
ResponseError_Generic(r) ==
    TimbalApiError(<<"Request failed">>, r.status, Undefined, Undefined)

\* The TimbalApiError thrown for a non-ok response (lines 197-205).
ResponseError(r) ==
    LET errorData == parseErrorResponse(r)
    IN  TimbalApiError(<<OrElse(errorData.message, "Request failed")>>,
                       r.status, errorData.code, errorData.details)

\* ------------------------------------------------------ classification

\* Mutant: the timeout is looked for under the name AbortSignal.timeout uses.
IsAbortError_TimeoutName(e) == e.name = "TimeoutError"

\* error instanceof Error && error.name === 'AbortError'
IsAbortError(e) == e.name = "AbortError"

\* Mutant: the network failure is looked for by a name fetch never uses.
IsTypeError_ByName(e) == e.name = "NetworkError"

\* error instanceof TypeError
IsTypeError(e) == e.name = "TypeError"

\* error instanceof TimbalApiError
IsTimbalApiError(e) == e.name = "TimbalApiError"

\* Mutant: one retry too many.
ShouldRetry_OffByOne(rc, cfg) == rc <= cfg.retryAttempts

\* retryCount < this.config.retryAttempts
ShouldRetry(rc, cfg) == rc < cfg.retryAttempts

\* Mutant: the delay is scaled by retryCount, not retryCount + 1.
Backoff_OffByOne(rc, cfg) == cfg.retryDelay * rc

\* this.config.retryDelay * (retryCount + 1)
Backoff(rc, cfg) == cfg.retryDelay * (rc + 1)

\* Mutant: every error status is retried.
IsServerError_AnyErrorStatus(e) == e.statusCode >= 400

\* error.statusCode >= 500
IsServerError(e) == e.statusCode >= 500

TimeoutError ==
    TimbalApiError(<<"Request timeout">>, 0, ERROR_CODES.TIMEOUT_ERROR, Undefined)

\* Mutant: the transport error is left out of the message.
NetworkError_NoCause(e) ==
    TimbalApiError(<<"Network error">>, 0, ERROR_CODES.NETWORK_ERROR, Undefined)

NetworkError(e) ==
    TimbalApiError(<<"Network error: ", e.message>>, 0, ERROR_CODES.NETWORK_ERROR,
                   Undefined)

\* `Unknown error occurred: ${error}`
UnknownError(e) ==
    TimbalApiError(<<"Unknown error occurred: ", e.name, ": ", e.message>>, 0,
                   ERROR_CODES.SERVER_ERROR, Undefined)

\* Mutant: the timer is armed with twice the timeout.
TimerDelay_Doubled(cfg) == 2 * cfg.timeout

\* setTimeout(() => controller.abort(), this.config.timeout) (line 188)
TimerDelay(cfg) == cfg.timeout

Retry(delay) == [retry |-> TRUE, delay |-> delay, error |-> NoError]

Throw(e) == [retry |-> FALSE, delay |-> 0, error |-> e]

\* Mutant: whatever the exception, it is retried while retries remain.
CatchDecision_RetryAll(e, rc, cfg) ==
    IF ShouldRetry(rc, cfg) THEN Retry(Backoff(rc, cfg))
    ELSE IF IsAbortError(e) THEN Throw(TimeoutError)
    ELSE IF IsTypeError(e) THEN Throw(NetworkError(e))
    ELSE IF IsTimbalApiError(e) THEN Throw(e)
    ELSE Throw(UnknownError(e))

\* The catch block of makeRequest: what it does with the exception e caught
\* in the invocation whose retryCount is rc.
CatchDecision(e, rc, cfg) ==
    IF IsAbortError(e)
    THEN IF ShouldRetry(rc, cfg) THEN Retry(Backoff(rc, cfg)) ELSE Throw(TimeoutError)
    ELSE IF IsTypeError(e)
    THEN IF ShouldRetry(rc, cfg) THEN Retry(Backoff(rc, cfg)) ELSE Throw(NetworkError(e))
    ELSE IF IsTimbalApiError(e)
    THEN IF IsServerError(e) /\ ShouldRetry(rc, cfg)
         THEN Retry(Backoff(rc, cfg))
         ELSE Throw(e)
    ELSE Throw(UnknownError(e))

\* ----------------------------------------------------------- services

\* The services and the parameters each keeps a default of.
Services == {"query", "table", "file", "app"}

DefaultKeys(service) ==
    CASE service = "query" -> {"orgId", "kbId", "sql"}
      [] service = "table" -> {"orgId", "kbId"}
      [] OTHER -> {"orgId"}

\* The services as the Timbal constructor makes them: no default is set.
NoDefaults == [s \in Services |-> [k \in DefaultKeys(s) |-> Undefined]]

\* Mutant: an empty value given in the call falls back to the default.
resolveDefault_OrDefault(d, key, value) ==
    IF Truthy(value) THEN value ELSE IF key \in DOMAIN d THEN d[key] ELSE Undefined

\* resolveDefault(key, value) of a service whose defaults are d.
resolveDefault(d, key, value) ==
    IF value # Undefined THEN value
    ELSE IF key \in DOMAIN d THEN d[key] ELSE Undefined

\* new QueryService(apiClient, lit), and so for the other services: each
\* default is the value lit gives its key, undefined if it gives none.
NewService(service, lit) ==
    [k \in DefaultKeys(service) |->
        IF k \in DOMAIN lit.given THEN lit.given[k] ELSE Undefined]

\* Mutant: setDefaults replaces the defaults by the object given.
setDefaults_Replace(d, lit) ==
    [k \in DOMAIN d |-> IF k \in DOMAIN lit.given THEN lit.given[k] ELSE Undefined]

\* setDefaults(lit): each default whose key lit gives with a value other
\* than undefined is set to it.
setDefaults(d, lit) ==
    [k \in DOMAIN d |-> IF k \in DOMAIN lit.given THEN lit.given[k] ELSE d[k]]

\* What an operation does once its parameters are checked: it throws an
\* Error with a message, or calls the API client with options.
Reject(message) == [reject |-> TRUE, message |-> message, options |-> NoOptions]
Call(options) == [reject |-> FALSE, message |-> <<>>, options |-> options]

\* The messages of the parameter checks.
DefaultableRequired(name) ==
    <<name, " is required", ". Provide it in the method call or set a default.">>
Required(name) == <<name, " is required", ".">>
ColumnsRequired == <<"columns", " are required and cannot be empty.">>

\* A collection parameter (columns, input, data) is missing, or is there
\* with its elements, keys or bytes.
Given(kind, fields) == [kind |-> kind, fields |-> fields]
Missing(v) == v.kind = "undefined"

\* Mutant: a collection with no element passes for one with elements.
Empty_Never(v) == FALSE

Empty(v) == v.fields = <<>>

\* The files on disk, by path, with their text.
Files == [f \in {"dir/data.csv"} |-> "a,b"]

\* QueryService.query (query.ts lines 51-71)
query(d, o) ==
    LET orgId == resolveDefault(d, "orgId", o.orgId)
        kbId == resolveDefault(d, "kbId", o.kbId)
        sql == resolveDefault(d, "sql", o.sql)
    IN  IF ~Truthy(orgId) THEN Reject(DefaultableRequired("orgId"))
        ELSE IF ~Truthy(kbId) THEN Reject(DefaultableRequired("kbId"))
        ELSE IF ~Truthy(sql) THEN Reject(DefaultableRequired("sql"))
        ELSE Call(At(PostOptions(ObjectData(<< <<"sql", sql>> >>)),
                     <<"orgs", "/", orgId, "/", "kbs", "/", kbId, "/", "query">>))

\* A column as createTable sends it (table.ts lines 53-61).
ColumnMembers(col) ==
    << <<"name", col.name>>, <<"data_type", col.dataType>>,
       <<"default_value", col.defaultValue>>,
       <<"is_nullable", "raw", col.isNullable>>, <<"is_unique", "raw", col.isUnique>>,
       <<"is_primary", "raw", col.isPrimary>>, <<"comment", col.comment>> >>

\* TableService.createTable (table.ts lines 27-66)
createTable(d, o) ==
    LET orgId == resolveDefault(d, "orgId", o.orgId)
        kbId == resolveDefault(d, "kbId", o.kbId)
    IN  IF ~Truthy(orgId) THEN Reject(DefaultableRequired("orgId"))
        ELSE IF ~Truthy(kbId) THEN Reject(DefaultableRequired("kbId"))
        ELSE IF ~Truthy(o.name) THEN Reject(Required("name"))
        ELSE IF Missing(o.columns) \/ Empty(o.columns) THEN Reject(ColumnsRequired)
        ELSE Call(At(PostOptions(ObjectData(
                        << <<"name", o.name>>,
                           <<"columns", "array",
                             [i \in 1..Len(o.columns.fields) |->
                                 ColumnMembers(o.columns.fields[i])]>>,
                           <<"comment", o.comment>> >>)),
                     <<"orgs", "/", orgId, "/", "kbs", "/", kbId, "/", "tables">>))

\* TableService.importCsv (table.ts lines 112-143)
importCsv(d, o) ==
    LET orgId == resolveDefault(d, "orgId", o.orgId)
        kbId == resolveDefault(d, "kbId", o.kbId)
        mode == IF o.mode = Undefined THEN "overwrite" ELSE o.mode
    IN  IF ~Truthy(orgId) THEN Reject(DefaultableRequired("orgId"))
        ELSE IF ~Truthy(kbId) THEN Reject(DefaultableRequired("kbId"))
        ELSE IF ~Truthy(o.tableName) THEN Reject(Required("tableName"))
        ELSE IF ~Truthy(o.csvPath) THEN Reject(Required("csvPath"))
        ELSE IF o.csvPath \notin DOMAIN Files
        THEN Reject(<<"ENOENT: no such file or directory, open '", o.csvPath, "'">>)
        ELSE Call(At(PostTextOptions(Files[o.csvPath], "text/csv"),
                     <<"orgs", "/", orgId, "/", "kbs", "/", kbId, "/", "tables", "/",
                       o.tableName, "/", "csv?mode=" \o mode>>))

\* FileService.uploadFile (file.ts lines 24-56)
uploadFile(d, o) ==
    LET orgId == resolveDefault(d, "orgId", o.orgId)
    IN  IF ~Truthy(orgId) THEN Reject(DefaultableRequired("orgId"))
        ELSE IF ~Truthy(o.filePath) THEN Reject(Required("filePath"))
        ELSE IF o.filePath \notin DOMAIN Files
        THEN Reject(<<"File not found: ", o.filePath>>)
        ELSE Call(At(PostFormDataOptions, <<"orgs", "/", orgId, "/", "files">>))

\* FileService.uploadFileFromBuffer (file.ts lines 71-99)
uploadFileFromBuffer(d, o) ==
    LET orgId == resolveDefault(d, "orgId", o.orgId)
    IN  IF ~Truthy(orgId) THEN Reject(DefaultableRequired("orgId"))
        ELSE IF Missing(o.data) THEN Reject(Required("data"))
        ELSE IF ~Truthy(o.filename) THEN Reject(Required("filename"))
        ELSE Call(At(PostFormDataOptions, <<"orgs", "/", orgId, "/", "files">>))

\* Mutant: an optional member is added whatever its value.
Optional_Always(key, value) == << <<key, value>> >>

\* The optional member key of the runApp payload: added if value is truthy.
Optional(key, value) == IF Truthy(value) THEN << <<key, value>> >> ELSE <<>>

\* AppService.runApp (part_004 lines 24-62)
runApp(d, o) ==
    LET orgId == resolveDefault(d, "orgId", o.orgId)
    IN  IF ~Truthy(orgId) THEN Reject(DefaultableRequired("orgId"))
        ELSE IF ~Truthy(o.appId) THEN Reject(Required("appId"))
        ELSE IF Missing(o.input) \/ Empty(o.input) THEN Reject(Required("input"))
        ELSE Call(At(PostOptions(ObjectData(
                        << <<"input", "object", o.input.fields>> >>
                        \o Optional("version_id", o.version_id)
                        \o Optional("group_id", o.group_id)
                        \o Optional("parent_id", o.parent_id))),
                     <<"orgs", "/", orgId, "/", "apps", "/", o.appId, "/", "runs", "/",
                       "collect">>))

\* The operations, the service of each, and what each does.
Operations ==
    {"query", "createTable", "importCsv", "uploadFile", "uploadFileFromBuffer", "runApp"}

ServiceOf(op) ==
    CASE op = "query" -> "query"
      [] op \in {"createTable", "importCsv"} -> "table"
      [] op \in {"uploadFile", "uploadFileFromBuffer"} -> "file"
      [] OTHER -> "app"

Plan(op, d, o) ==
    CASE op = "query" -> query(d, o)
      [] op = "createTable" -> createTable(d, o)
      [] op = "importCsv" -> importCsv(d, o)
      [] op = "uploadFile" -> uploadFile(d, o)
      [] op = "uploadFileFromBuffer" -> uploadFileFromBuffer(d, o)
      [] OTHER -> runApp(d, o)

\* Mutant: the positional variants take their first two parameters in the
\* other order.
ByParams_Swapped(op, t) ==
    CASE op = "query" -> [orgId |-> t[2], kbId |-> t[1], sql |-> t[3]]
      [] op = "createTable" ->
            [orgId |-> t[2], kbId |-> t[1], name |-> t[3], columns |-> t[4],
             comment |-> t[5]]
      [] op = "importCsv" ->
            [orgId |-> t[2], kbId |-> t[1], tableName |-> t[3], csvPath |-> t[4],
             mode |-> t[5]]
      [] op = "uploadFile" -> [orgId |-> t[2], filePath |-> t[1]]
      [] OTHER ->
            [orgId |-> t[2], appId |-> t[1], input |-> t[3], version_id |-> t[4],
             group_id |-> t[5], parent_id |-> t[6]]

\* The options object a positional variant builds from its parameters t
\* (queryByParams, createTableByParams, importCsvByParams with its default
\* mode, uploadFileByParams, runAppByParams).
ByParams(op, t) ==
    CASE op = "query" -> [orgId |-> t[1], kbId |-> t[2], sql |-> t[3]]
      [] op = "createTable" ->
            [orgId |-> t[1], kbId |-> t[2], name |-> t[3], columns |-> t[4],
             comment |-> t[5]]
      [] op = "importCsv" ->
            [orgId |-> t[1], kbId |-> t[2], tableName |-> t[3], csvPath |-> t[4],
             mode |-> IF t[5] = Undefined THEN "overwrite" ELSE t[5]]
      [] op = "uploadFile" -> [orgId |-> t[1], filePath |-> t[2]]
      [] OTHER ->
            [orgId |-> t[1], appId |-> t[2], input |-> t[3], version_id |-> t[4],
             group_id |-> t[5], parent_id |-> t[6]]

\* The service operation behind a dispatch: the operation, how it was called
\* ("options", "positional", or "testConnection"), its parameters, the
\* defaults of its service at the call, and how it ended for its caller.
Called(op, variant, args, d, outcome) ==
    [op |-> op, variant |-> variant, args |-> args, defaults |-> d, outcome |-> outcome]

\* No service operation is behind the dispatch.
NoCall == Called("none", "none", <<>>, <<>>, "none")

\* ----------------------------------------------------------- messages

\* A JavaScript value: its kind, what it holds, and for an object, an array
\* or a TimbalMessage the identity of the instance (0: an instance the
\* normalisation creates).  A number or boolean holds its text as String()
\* gives it, an array its elements, an object its members (key and value,
\* in order), a TimbalMessage its role and content.
Undef == [id |-> 0, kind |-> "undefined", of |-> <<>>]
Null == [id |-> 0, kind |-> "null", of |-> <<>>]
Str(text) == [id |-> 0, kind |-> "string", of |-> text]
Num(text) == [id |-> 0, kind |-> "number", of |-> text]
Bool(text) == [id |-> 0, kind |-> "boolean", of |-> text]
Arr(id, items) == [id |-> id, kind |-> "array", of |-> items]
Obj(id, members) == [id |-> id, kind |-> "object", of |-> members]
Instance(id, role, content) ==
    [id |-> id, kind |-> "message", of |-> [role |-> role, content |-> content]]

\* typeof value === "object" && value !== null
IsObject(v) == v.kind \in {"object", "array", "message"}

\* The own properties that matter of an object, an array (none) or a
\* TimbalMessage (role and content).
Properties(v) ==
    IF v.kind = "object" THEN v.of
    ELSE IF v.kind = "message"
    THEN << <<"role", v.of.role>>, <<"content", Arr(0, v.of.content)>> >>
    ELSE <<>>

\* key in value
In(key, v) == \E i \in 1..Len(Properties(v)) : Properties(v)[i][1] = key

\* value[key]: undefined if the value has no such property.
Get(v, key) ==
    IF In(key, v)
    THEN Properties(v)[CHOOSE i \in 1..Len(Properties(v)) : Properties(v)[i][1] = key][2]
    ELSE Undef

\* A value as a condition.
Falsy(v) ==
    \/ v.kind \in {"undefined", "null"}
    \/ v.kind = "string" /\ v.of = ""
    \/ v.kind = "number" /\ v.of \in {"0", "NaN"}
    \/ v.kind = "boolean" /\ v.of = "false"

\* String(value); an array is joined with commas.
RECURSIVE StringOf(_)
RECURSIVE Joined(_)
StringOf(v) ==
    CASE v.kind \in {"string", "number", "boolean"} -> v.of
      [] v.kind = "undefined" -> "undefined"
      [] v.kind = "null" -> "null"
      [] v.kind = "array" -> Joined(v.of)
      [] OTHER -> "[object Object]"
Joined(items) ==
    IF items = <<>> THEN ""
    ELSE LET first == IF items[1].kind \in {"undefined", "null"} THEN ""
                      ELSE StringOf(items[1])
         IN  IF Len(items) = 1 THEN first ELSE first \o "," \o Joined(Tail(items))

\* JSON.stringify(value) of an object or an array: a member whose value is
\* undefined is left out, an undefined element is null.
RECURSIVE Json(_)
RECURSIVE JsonMembers(_)
RECURSIVE JsonElements(_)
Json(v) ==
    CASE v.kind = "string" -> Quote(v.of)
      [] v.kind \in {"number", "boolean"} -> v.of
      [] v.kind \in {"null", "undefined"} -> "null"
      [] v.kind = "array" -> "[" \o JsonElements(v.of) \o "]"
      [] OTHER -> "{" \o JsonMembers(Properties(v)) \o "}"
JsonMembers(members) ==
    IF members = <<>> THEN ""
    ELSE IF members[1][2].kind = "undefined" THEN JsonMembers(Tail(members))
    ELSE LET first == Quote(members[1][1]) \o ":" \o Json(members[1][2])
             rest == JsonMembers(Tail(members))
         IN  IF rest = "" THEN first ELSE first \o "," \o rest
JsonElements(items) ==
    IF items = <<>> THEN ""
    ELSE IF Len(items) = 1 THEN Json(items[1])
    ELSE Json(items[1]) \o "," \o JsonElements(Tail(items))

\* The content objects the factory creates.
TextContent(text) == Obj(0, << <<"type", Str("text")>>, <<"text", Str(text)>> >>)
ThinkingContent(text) ==
    Obj(0, << <<"type", Str("thinking")>>, <<"thinking", Str(text)>> >>)
FileContent(file) == Obj(0, << <<"type", Str("file")>>, <<"file", Str(file)>> >>)
ToolUseContent(id, name, input) ==
    Obj(0, << <<"type", Str("tool_use")>>, <<"id", Str(id)>>, <<"name", Str(name)>>,
              <<"input", input>> >>)
ToolResultContent(id, content) ==
    Obj(0, << <<"type", Str("tool_result")>>, <<"id", Str(id)>>,
              <<"content", Arr(0, content)>> >>)

\* String(v || "")
StringOr(v) == IF Falsy(v) THEN "" ELSE StringOf(v)

\* The elements of the value if it is an array, else the value alone
\* (lines 41-43 and 97-100).
AsArray(v) == IF v.kind = "array" THEN v.of ELSE <<v>>

\* Mutant: a tool result keeps whatever its nested items become.
Nestable_Any(c) == TRUE

\* The filter of the nested items of a tool result (lines 103-105).
Nestable(c) == Get(c, "type") \in {Str("text"), Str("thinking"), Str("file")}

\* The factory returns value as MessageContent (line 65).
Kept(v) == v

\* MessageContentFactory.from(value) (lines 62-120)
RECURSIVE ContentFrom(_)
ContentFrom(v) ==
    IF IsObject(v) /\ In("type", v) /\ Get(v, "type") # Str("tool_result")
    THEN Kept(v)
    ELSE IF v.kind = "string" THEN TextContent(v.of)
    ELSE IF IsObject(v)
    THEN LET contentType == Get(v, "type")
         IN  CASE contentType = Str("text") -> TextContent(StringOr(Get(v, "text")))
               [] contentType = Str("thinking") ->
                     ThinkingContent(StringOr(Get(v, "thinking")))
               [] contentType = Str("file") -> FileContent(StringOr(Get(v, "file")))
               [] contentType = Str("tool_use") ->
                     ToolUseContent(StringOr(Get(v, "id")), StringOr(Get(v, "name")),
                                    IF Falsy(Get(v, "input")) THEN Obj(0, <<>>)
                                    ELSE Get(v, "input"))
               [] contentType = Str("tool_result") ->
                     LET items == AsArray(Get(v, "content"))
                         processed == [i \in 1..Len(items) |-> ContentFrom(items[i])]
                     IN  ToolResultContent(StringOr(Get(v, "id")),
                                           SelectSeq(processed, Nestable))
               [] OTHER -> TextContent(Json(v))
    ELSE TextContent(StringOf(v))

\* let content = obj.content (line 40)
ContentOf(v) == Get(v, "content")

\* Mutant: from makes a new message of a TimbalMessage.
IsMessage_Never(v) == FALSE

\* value instanceof TimbalMessage
IsMessage(v) == v.kind = "message"

\* TimbalMessage.from(value) (lines 32-52); the message it creates is the
\* instance fresh.
MessageFrom(v, fresh) ==
    IF IsMessage(v) THEN v
    ELSE IF IsObject(v)
    THEN LET role == IF Falsy(Get(v, "role")) THEN Str("user") ELSE Get(v, "role")
             items == AsArray(ContentOf(v))
         IN  Instance(fresh, role, [i \in 1..Len(items) |-> ContentFrom(items[i])])
    ELSE Instance(fresh, Str("user"), <<ContentFrom(v)>>)

\* No value: nothing was made yet.
NoValue == [id |-> 0, kind |-> "none", of |-> <<>>]

\* The value given to the normalisation; what TimbalMessage.from made of it,
\* and of that message in turn; what MessageContentFactory.from made of it.
Norm(value, message, again, content) ==
    [value |-> value, message |-> message, again |-> again, content |-> content]

NoNorm == Norm(NoValue, NoValue, NoValue, NoValue)

\* The configuration objects in memory, objects[a] the one at the address a:
\* DEFAULT_CONFIG is at dflt, this client's this.config at own, another
\* client's at other (0 before it is constructed); the caller holds references
\* to the objects at held; last is the latest call.
Heap(objects, dflt, own, other, held, last) ==
    [objects |-> objects, dflt |-> dflt, own |-> own, other |-> other,
     held |-> held, last |-> last]

\* The configuration objects are not followed.
NoHeap == Heap(<<>>, 0, 0, 0, {}, "none")

\* An expression's effect on memory and the address of its value.
Placed(h, a) == [heap |-> h, at |-> a]

\* Mutant: no copy is made, the value is the object itself.
Spread_Same(h, a) == Placed(h, a)

\* { ...obj }, obj the object at a: a new object with obj's own properties
\* (index.ts line 28, part_005 line 350).
Spread(h, a) ==
    Placed([h EXCEPT !.objects = Append(@, h.objects[a])], Len(h.objects) + 1)

\* obj[key] = v on the object at a.
Assign(h, a, key, v) ==
    [h EXCEPT !.objects[a] = [k \in DOMAIN @ \cup {key} |-> IF k = key THEN v ELSE @[k]]]

\* deepMerge(target, lit), target the object at a: the keys of the literal
\* are written to result = { ...target }, which is returned (lines 27-42).
deepMergeAt(h, a, lit) ==
    LET result == Spread(h, a)
    IN  Placed([result.heap EXCEPT !.objects[result.at] = deepMergeLiteral(@, lit)],
           result.at)

\* -------------------------------------------------------------- state

VARIABLES
    config,      \* this.config of the client
    pc,          \* where each dispatch is suspended
    opts,        \* the options the dispatch was called with
    retryCount,  \* the retryCount argument of the running makeRequest invocation
    response,    \* the response the running invocation received from fetch
    timers,      \* the invocations (by retryCount) whose setTimeout is armed
    result,      \* the envelope the dispatch returned
    error,       \* the exception the dispatch raised
    attempts,    \* history: the number of fetch calls issued
    waits,       \* history: the arguments of the sleep calls, in order
    firstOut,    \* history: how the transport ended the first attempt
    lastOut,     \* history: how the transport ended the latest attempt
    kindsSeen,   \* history: the kinds of transport outcome over all attempts
    nRetryable,  \* history: the attempts the transport ended in a retryable failure
    sent,        \* the request the latest fetch call was given
    armed,       \* history: the delays of the setTimeout calls, one per attempt
    startConfig, \* history: this.config when the dispatch was called
    ended,       \* history: the attempts that have ended
    elapsed,     \* time since the dispatch was called (timed specification)
    bodyTime,    \* the part of elapsed spent awaiting response bodies
    lastUpdate,  \* history: the latest updateConfig call and this.config before it
    defaults,    \* the default parameters each service holds
    called,      \* history: the service operation behind each dispatch
    setLog,      \* history: what each service's constructor and setDefaults calls were given
    norm,        \* a value, and what TimbalMessage.from and MessageContentFactory.from made of it
    heap,        \* the configuration objects, and who holds a reference to which
    signals      \* the abort signal in each dispatch's options, and the one its fetch was given

vars ==
    <<config, pc, opts, retryCount, response, timers, result, error,
      attempts, waits, firstOut, lastOut, kindsSeen, nRetryable,
      sent, armed, startConfig, ended, elapsed, bodyTime,
      lastUpdate, defaults, called, setLog, norm, heap, signals>>

\* How the transport ended an attempt: "timeout" (no response before the
\* timer fired), "network" (fetch rejected) or "response".
Outcome(kind, r, message) == [kind |-> kind, response |-> r, message |-> message]

NoOutcome == Outcome("none", NoResponse, "")

\* The outcome's kind, a response by the class of its status.
Tag(out) ==
    IF out.kind # "response" THEN out.kind
    ELSE IF Ok(out.response.status) THEN "2xx"
    ELSE IF out.response.status >= 500 THEN "5xx"
    ELSE "4xx"

\* The transport failures the retry policy names: timeout, network failure
\* (before the status or while the body of a success is streamed), 5xx.
RetryableOutcome(out) ==
    \/ Tag(out) \in {"timeout", "network", "5xx"}
    \/ Tag(out) = "2xx" /\ out.response.body.kind = "aborted"

\* Mutant: the state of a dispatch is one field of the client, shared by all
\* the dispatches under way.
Set_Shared(f, c, v) == [x \in DOMAIN f |-> v]

\* The locals and parameters of one makeRequest call belong to that call.
Set(f, c, v) == [f EXCEPT ![c] = v]

\* The history of an attempt's end.
Note(c, out) ==
    /\ lastOut' = Set(lastOut, c, out)
    /\ firstOut' = IF attempts[c] = 1 THEN Set(firstOut, c, out) ELSE firstOut
    /\ kindsSeen' = Set(kindsSeen, c, kindsSeen[c] \cup {Tag(out)})
    /\ nRetryable' = Set(nRetryable, c, nRetryable[c] + (IF RetryableOutcome(out) THEN 1 ELSE 0))

\* new ApiClient(config)
Construct(userConfig) == deepMerge(DEFAULT_CONFIG, userConfig)

\* An abort signal: the one of the AbortController that the attempt rc of
\* the dispatch c creates (line 187), or the one the caller of c holds.
ControllerSignal(c, rc) == [owner |-> "controller", call |-> c, attempt |-> rc]
CallerSignal(c) == [owner |-> "caller", call |-> c, attempt |-> 0]
NoSignal == [owner |-> "none", call |-> "", attempt |-> 0]

\* Mutant: the options are spread after the controller's signal, so that a
\* signal among them wins.
FetchSignal_Given(given, own) == IF given # NoSignal THEN given ELSE own

\* The signal fetch is called with, given the signal among the caller's
\* options and the controller's: { ...requestOptions, signal:
\* controller.signal } (lines 190-193), the later key wins.
FetchSignal(given, own) == own

\* What is known of the signals of one dispatch: the one in the options, the
\* one of the latest fetch, and whether the caller has aborted theirs.
Signals(given, fetch, aborted) == [given |-> given, fetch |-> fetch, aborted |-> aborted]
NoSignals == Signals(NoSignal, NoSignal, FALSE)

\* No dispatch has been called yet.
InitDispatch ==
    /\ pc = [c \in Calls |-> "idle"]
    /\ opts = [c \in Calls |-> NoOptions]
    /\ retryCount = [c \in Calls |-> 0]
    /\ response = [c \in Calls |-> NoResponse]
    /\ timers = [c \in Calls |-> {}]
    /\ result = [c \in Calls |-> NoResult]
    /\ error = [c \in Calls |-> NoError]
    /\ attempts = [c \in Calls |-> 0]
    /\ waits = [c \in Calls |-> <<>>]
    /\ firstOut = [c \in Calls |-> NoOutcome]
    /\ lastOut = [c \in Calls |-> NoOutcome]
    /\ kindsSeen = [c \in Calls |-> {}]
    /\ nRetryable = [c \in Calls |-> 0]
    /\ sent = [c \in Calls |-> NoSent]
    /\ armed = [c \in Calls |-> <<>>]
    /\ startConfig = [c \in Calls |-> config]
    /\ ended = [c \in Calls |-> 0]
    /\ elapsed = [c \in Calls |-> 0]
    /\ bodyTime = [c \in Calls |-> 0]
    /\ lastUpdate = NoUpdate
    /\ called = [c \in Calls |-> NoCall]
    /\ signals = [c \in Calls |-> NoSignals]

\* No dispatch has been called yet; no message is being made, and the
\* configuration objects are not followed.
InitCalls ==
    /\ InitDispatch
    /\ norm = NoNorm
    /\ heap = NoHeap

\* The services are constructed without defaults, as the Timbal constructor
\* does.
NoLiterals == [s \in Services |-> Literal(<<>>, {})]

\* The services as the constructors make them from the literals lits.
InitServices(lits) ==
    /\ defaults = [s \in Services |-> NewService(s, lits[s])]
    /\ setLog = [s \in Services |-> <<lits[s]>>]

Init ==
    /\ config \in { Construct(u) : u \in UserConfigs }
    /\ InitCalls
    /\ InitServices(NoLiterals)

\* ------------------------------------------------------------ actions

\* makeRequest(endpoint, o, rc) up to its first await (lines 153-193): the
\* URL and the headers are built outside the try, so a TypeError of the
\* Headers constructor leaves makeRequest as it is; otherwise the timer is
\* armed and fetch is called.
Invoke(c, o, rc) ==
    IF HeadersThrow(o)
    THEN /\ pc' = Set(pc, c, "raised")
         /\ error' = Set(error, c, JsError("TypeError", "Invalid header name"))
         /\ UNCHANGED <<retryCount, timers, attempts, sent, armed>>
    ELSE /\ pc' = Set(pc, c, "fetch")
         /\ retryCount' = Set(retryCount, c, rc)
         /\ sent' = Set(sent, c, Sent(BuildUrl(config.baseUrl, o.endpoint),
                                     BuildHeaders(o, config), o.body))
         /\ timers' = Set(timers, c, timers[c] \cup {rc})
         /\ armed' = Set(armed, c, Append(armed[c], TimerDelay(config)))
         /\ attempts' = Set(attempts, c, attempts[c] + 1)
         /\ UNCHANGED error

\* The catch block (lines 213-243) on the exception e: sleep before the
\* retry, or throw to the caller.
Catch(c, e) ==
    LET d == CatchDecision(e, retryCount[c], config)
    IN  IF d.retry
        THEN /\ pc' = Set(pc, c, "sleep")
             /\ waits' = Set(waits, c, Append(waits[c], d.delay))
             /\ UNCHANGED error
        ELSE /\ pc' = Set(pc, c, "raised")
             /\ error' = Set(error, c, d.error)
             /\ UNCHANGED waits

\* A public method calls makeRequest(endpoint, o).
Request(c, o) ==
    /\ pc[c] = "idle"
    /\ opts' = Set(opts, c, o)
    /\ startConfig' = Set(startConfig, c, config)
    /\ Invoke(c, o, 0)
    /\ UNCHANGED <<config, response, result, waits, firstOut, lastOut, kindsSeen,
                   nRetryable, ended>>

\* Mutant: one controller serves all the attempts of a dispatch.
Aborts_Shared(k, rc) == TRUE

\* controller.abort() in the timer of the invocation k rejects the fetch of
\* the invocation rc: the controller is a local of the invocation, and fetch
\* is given its signal (lines 186-193).
Aborts(k, rc) == k = rc

\* fetch resolves with the response r; the timer is cleared (line 195) and
\* the body is awaited (line 198 or 207).
FetchResponds(c, r) ==
    /\ pc[c] = "fetch"
    /\ pc' = Set(pc, c, "body")
    /\ response' = Set(response, c, r)
    /\ timers' = Set(timers, c, timers[c] \ {retryCount[c]})
    /\ Note(c, Outcome("response", r, ""))
    /\ UNCHANGED <<config, opts, retryCount, result, error, attempts, waits,
                   sent, armed, startConfig, ended>>

\* fetch rejects with a TypeError; clearTimeout is not reached.
FetchFails(c, message) ==
    /\ pc[c] = "fetch"
    /\ Catch(c, JsError("TypeError", message))
    /\ Note(c, Outcome("network", NoResponse, message))
    /\ ended' = Set(ended, c, ended[c] + 1)
    /\ UNCHANGED <<config, opts, retryCount, response, timers, result, attempts,
                   sent, armed, startConfig>>

\* The attempt's timer fires while fetch is pending: controller.abort()
\* rejects fetch with an AbortError.
TimeoutFires(c) ==
    /\ pc[c] = "fetch"
    /\ \E k \in timers[c] :
          /\ Aborts(k, retryCount[c])
          /\ timers' = Set(timers, c, timers[c] \ {k})
    /\ Catch(c, JsError("AbortError", "This operation was aborted"))
    /\ Note(c, Outcome("timeout", NoResponse, ""))
    /\ ended' = Set(ended, c, ended[c] + 1)
    /\ UNCHANGED <<config, opts, retryCount, response, result, attempts,
                   sent, armed, startConfig>>

\* response.json() settles (lines 197-212); on a body that the server never
\* finishes ("stalled") it does not.
ReadBody(c) ==
    LET r == response[c]
    IN  /\ pc[c] = "body"
        /\ r.body.kind # "stalled"
        /\ ended' = Set(ended, c, ended[c] + 1)
        /\ IF ~Ok(r.status)
           THEN Catch(c, ResponseError(r)) /\ UNCHANGED result
           ELSE IF r.body.kind = "malformed"
           THEN Catch(c, JsError("SyntaxError", "Unexpected token")) /\ UNCHANGED result
           ELSE IF r.body.kind = "aborted"
           THEN Catch(c, JsError("TypeError", "terminated")) /\ UNCHANGED result
           ELSE /\ pc' = Set(pc, c, "returned")
                /\ result' = Set(result, c, Envelope(r.body, r.status))
                /\ UNCHANGED <<error, waits>>
        /\ UNCHANGED <<config, opts, retryCount, response, timers, attempts,
                       firstOut, lastOut, kindsSeen, nRetryable,
                       sent, armed, startConfig>>

\* sleep resolves and makeRequest calls itself with retryCount + 1.
SleepDone(c) ==
    /\ pc[c] = "sleep"
    /\ Invoke(c, opts[c], retryCount[c] + 1)
    /\ UNCHANGED <<config, opts, response, result, waits, firstOut, lastOut,
                   kindsSeen, nRetryable, startConfig, ended>>

\* A timer that was never cleared fires after its attempt has ended: abort()
\* on a controller whose fetch has settled does nothing.
StaleTimerFires(c, k) ==
    /\ k \in timers[c]
    /\ ~(pc[c] = "fetch" /\ Aborts(k, retryCount[c]))
    /\ timers' = Set(timers, c, timers[c] \ {k})
    /\ UNCHANGED <<config, pc, opts, retryCount, response, result, error,
                   attempts, waits, firstOut, lastOut, kindsSeen, nRetryable,
                   sent, armed, startConfig, ended>>

\* updateConfig(lit), lit an object literal some of whose keys may have the
\* value undefined: this.config = deepMerge(this.config, newConfig)
\* (lines 345-347).
UpdateConfigWith(lit) ==
    /\ config' = deepMergeLiteral(config, lit)
    /\ lastUpdate' = [lit |-> lit, before |-> config]
    /\ UNCHANGED <<pc, opts, retryCount, response, timers, result, error,
                   attempts, waits, firstOut, lastOut, kindsSeen, nRetryable,
                   sent, armed, startConfig, ended, elapsed, bodyTime,
                   defaults, called, setLog, norm, heap, signals>>

\* updateConfig(newConfig), every key of newConfig having a value.
UpdateConfig(newConfig) == UpdateConfigWith(Literal(newConfig, {}))

\* Mutant: testConnection has no catch.
Settled_Rethrown(call, end) == IF end = "returned" THEN "resolved" ELSE "rejected"

\* How a service operation ends for its caller once its dispatch has ended:
\* it resolves or rejects as the dispatch did; testConnection resolves with
\* true, or catches whatever was thrown and resolves with false
\* (message.test.ts lines 559-577).
Settled(call, end) ==
    IF call.op = "testConnection"
    THEN IF end = "returned" THEN "true" ELSE "false"
    ELSE IF end = "returned" THEN "resolved" ELSE "rejected"

\* A service operation is called: it throws after its parameter checks, or
\* calls the API client.
Serve(c, call, plan) ==
    /\ pc[c] = "idle"
    /\ called' = Set(called, c, call)
    /\ IF plan.reject
       THEN /\ pc' = Set(pc, c, "raised")
            /\ error' = Set(error, c, JsError("Error", plan.message))
            /\ UNCHANGED <<config, opts, retryCount, response, timers, result,
                           attempts, waits, firstOut, lastOut, kindsSeen, nRetryable,
                           sent, armed, startConfig, ended>>
       ELSE Request(c, plan.options)
    /\ UNCHANGED <<elapsed, bodyTime, lastUpdate, defaults, setLog, norm, heap, signals>>

\* The operation op is called with the options object o.
ServiceCall(c, op, o) ==
    LET d == defaults[ServiceOf(op)]
    IN  Serve(c, Called(op, "options", o, d, "pending"), Plan(op, d, o))

\* The positional variant of the operation op is called with the
\* parameters t.
ServiceCallByParams(c, op, t) ==
    LET d == defaults[ServiceOf(op)]
    IN  Serve(c, Called(op, "positional", t, d, "pending"), Plan(op, d, ByParams(op, t)))

\* Timbal.testConnection (message.test.ts lines 559-577)
TestConnection(c) ==
    LET d == defaults["query"]
    IN  Serve(c, Called("testConnection", "options", <<>>, d, "pending"),
              IF Truthy(d.orgId) /\ Truthy(d.kbId)
              THEN query(d, [orgId |-> Undefined, kbId |-> Undefined, sql |-> "SELECT 1"])
              ELSE Call(At(GetOptions, <<"/">>)))

\* The dispatch has ended: the operation behind it ends for its caller.
Settle(c) ==
    /\ pc[c] \in {"returned", "raised"}
    /\ called[c].outcome = "pending"
    /\ called' = Set(called, c, [called[c] EXCEPT !.outcome = Settled(called[c], pc[c])])
    /\ UNCHANGED <<config, pc, opts, retryCount, response, timers, result, error,
                   attempts, waits, firstOut, lastOut, kindsSeen, nRetryable,
                   sent, armed, startConfig, ended, elapsed, bodyTime, lastUpdate,
                   defaults, setLog, norm, heap, signals>>

\* setDefaults(lit) of a service.
SetDefaults(service, lit) ==
    /\ defaults' = [defaults EXCEPT ![service] = setDefaults(@, lit)]
    /\ setLog' = [setLog EXCEPT ![service] = Append(@, lit)]
    /\ UNCHANGED <<config, pc, opts, retryCount, response, timers, result, error,
                   attempts, waits, firstOut, lastOut, kindsSeen, nRetryable,
                   sent, armed, startConfig, ended, elapsed, bodyTime, lastUpdate, called,
                   norm, heap, signals>>

\* The steps of the dispatch c when the callers pass the options os and the
\* transport answers with the responses rs or fails with the messages ms.
StepWith(c, os, rs, ms) ==
    \/ \E o \in os : Request(c, o)
    \/ \E r \in rs : FetchResponds(c, r)
    \/ \E m \in ms : FetchFails(c, m)
    \/ TimeoutFires(c)
    \/ ReadBody(c)
    \/ SleepDone(c)
    \/ \E k \in timers[c] : StaleTimerFires(c, k)

\* The steps of the dispatch c.
Step(c) == StepWith(c, RequestOptions, Responses, NetworkMessages)

\* The clock of the timed specification.
clock == <<elapsed, bodyTime>>

\* What the dispatcher's steps leave alone: the services and the history of
\* the configuration.
facade == <<lastUpdate, defaults, called, setLog, norm, heap, signals>>

\* One dispatch on a client whose configuration is not updated meanwhile.
Next == Step("a") /\ UNCHANGED <<clock, facade>>

Spec == Init /\ [][Next]_vars

\* A transport with one answer of each class.
OkResponse ==
    Response(200, "", Body("object", "rows", Undefined, Undefined, Undefined, Undefined))
ClientErrorResponse ==
    Response(404, "reason", Body("object", Undefined, "msgA", Undefined, "CODE_A", "detA"))
ServerErrorResponse ==
    Response(503, "reason", Body("object", Undefined, "msgB", "errB", Undefined, Undefined))
FewResponses == {OkResponse, ClientErrorResponse, ServerErrorResponse}
FewMessages == {"fetch failed"}

\* What updateConfig is called with while dispatches are under way.
ConfigUpdates ==
    { [timeout |-> 20],
      [retryAttempts |-> 1, retryDelay |-> 10],
      [apiKey |-> "key2", baseUrl |-> <<"a", "l", "t">>] }

\* A client constructed with every setting given.
InitFull ==
    /\ Init
    /\ config = Construct([apiKey |-> "key", timeout |-> 50,
                           retryAttempts |-> MaxRetryAttempts, retryDelay |-> 100])

\* One dispatch, and calls of updateConfig at any moment of it.
NextUpdate ==
    \/ StepWith("a", {NoOptions}, FewResponses, FewMessages) /\ UNCHANGED <<clock, facade>>
    \/ \E u \in ConfigUpdates : UpdateConfig(u)

SpecUpdate == InitFull /\ [][NextUpdate]_vars

\* Two dispatches under way on one client, their steps interleaved in every
\* order.
NextConc ==
    \E c \in Calls :
        StepWith(c, {NoOptions}, FewResponses, FewMessages) /\ UNCHANGED <<clock, facade>>

SpecConc == InitFull /\ [][NextConc]_vars

\* One dispatch through any of the public methods.
NextReq ==
    StepWith("a", MethodOptions, FewResponses, FewMessages) /\ UNCHANGED <<clock, facade>>

SpecReq == InitFull /\ [][NextReq]_vars

\* The transport outcomes the dispatch c has got so far.
Noted(c) == ended[c] + (IF pc[c] = "body" THEN 1 ELSE 0)

\* The dispatch "b" gets from the transport, attempt by attempt, what the
\* dispatch "a" got: "a" is given an outcome when both have got as many, "b"
\* is then given the same.
Leads == Noted("a") = Noted("b")
Follows(out) == Noted("b") + 1 = Noted("a") /\ lastOut["a"] = out

\* Two dispatches through any two public methods, under the same sequence of
\* transport outcomes.
NextVariants ==
    /\ \/ \E c \in Calls, o \in VariantOptions : Request(c, o)
       \/ \E r \in FewResponses :
             \/ Leads /\ FetchResponds("a", r)
             \/ Follows(Outcome("response", r, "")) /\ FetchResponds("b", r)
       \/ \E m \in FewMessages :
             \/ Leads /\ FetchFails("a", m)
             \/ Follows(Outcome("network", NoResponse, m)) /\ FetchFails("b", m)
       \/ Leads /\ TimeoutFires("a")
       \/ Follows(Outcome("timeout", NoResponse, "")) /\ TimeoutFires("b")
       \/ \E c \in Calls : ReadBody(c) \/ SleepDone(c)
       \/ \E c \in Calls : \E k \in timers[c] : StaleTimerFires(c, k)
    /\ UNCHANGED <<clock, facade>>

SpecVariants == InitFull /\ [][NextVariants]_vars

\* The object literals callers give the constructor and updateConfig: a
\* value for a key, or a key whose value is undefined (a setting read from
\* an environment that lacks it).  Nothing checks the numbers given.
ConfigLiterals ==
    { Literal([k \in {"timeout"} |-> v], {}) : v \in {50, 15000} }
    \cup { Literal([k \in {"retryAttempts"} |-> v], {}) : v \in {0, MaxRetryAttempts, -1} }
    \cup { Literal([k \in {"retryDelay"} |-> 100], {}),
           Literal([k \in {"baseUrl"} |-> <<"a", "l", "t">>], {}),
           Literal([k \in {"apiKey"} |-> "key2"], {}),
           Literal([k \in {"timeout", "retryDelay"} |-> 20], {}),
           Literal(<<>>, {}) }
    \cup { Literal(<<>>, {k}) :
             k \in {"baseUrl", "timeout", "retryAttempts", "retryDelay"} }
    \cup { Literal([k \in {"timeout"} |-> 15000], {"retryAttempts"}) }

\* new ApiClient(lit), lit an object literal with the apiKey and more.
ConstructWith(lit) ==
    deepMergeLiteral(DEFAULT_CONFIG,
                     Literal(deepMerge([apiKey |-> "key"], lit.given), lit.undefined))

\* getConfig(): a copy of this.config (lines 349-351).
getConfig == config

InitConfig ==
    /\ config \in { ConstructWith(lit) : lit \in ConfigLiterals }
    /\ InitCalls
    /\ InitServices(NoLiterals)

\* The configuration surface alone: construction, then updates.
NextConfig == \E lit \in ConfigLiterals : UpdateConfigWith(lit)

SpecConfig == InitConfig /\ [][NextConfig]_vars

\* Base addresses and paths with no, one and two slashes at the join.
BaseUrls ==
    LET b == <<"https:", "/", "/", "api.test.com">>
    IN  {b, b \o <<"/">>, b \o <<"/", "/">>}

Endpoints ==
    LET e == <<"orgs", "/", "o", "/", "apps", "/", "a", "/", "runs", "/", "collect">>
    IN  {e, <<"/">> \o e, <<"/", "/">> \o e, <<>>, <<"/">>}

\* A client constructed with any of the base addresses.
InitUrl ==
    /\ config \in { Construct([apiKey |-> "key", baseUrl |-> b, timeout |-> 50,
                              retryAttempts |-> MaxRetryAttempts - 1, retryDelay |-> 100]) :
                    b \in BaseUrls }
    /\ InitCalls
    /\ InitServices(NoLiterals)

\* One dispatch to any of the paths.
NextUrl ==
    StepWith("a", { At(NoOptions, e) : e \in Endpoints }, FewResponses, FewMessages)
    /\ UNCHANGED <<clock, facade>>

SpecUrl == InitUrl /\ [][NextUrl]_vars

\* The collection parameters callers pass: none, an empty one, one with an
\* element.
IdColumn ==
    [name |-> "id", dataType |-> "int", defaultValue |-> Undefined,
     isNullable |-> "false", isUnique |-> "true", isPrimary |-> "true",
     comment |-> Undefined]
ColumnLists == {Given("undefined", <<>>), Given("array", <<>>), Given("array", <<IdColumn>>)}
Inputs ==
    {Given("undefined", <<>>), Given("object", <<>>),
     Given("object", << <<"prompt", "hello">> >>)}
Buffers == {Given("undefined", <<>>), Given("buffer", <<>>), Given("buffer", <<1>>)}

\* The options objects the callers pass to each operation; a key with the
\* value Undefined is left out or undefined.
ServiceArgs(op) ==
    CASE op = "query" ->
            [orgId : {Undefined, "", "org1"}, kbId : {Undefined, "kb1"},
             sql : {Undefined, "", "SELECT 2"}]
      [] op = "createTable" ->
            [orgId : {Undefined, "org1"}, kbId : {"", "kb1"}, name : {Undefined, "t"},
             columns : ColumnLists, comment : {Undefined, "c"}]
      [] op = "importCsv" ->
            [orgId : {Undefined, "org1"}, kbId : {Undefined, "kb1"},
             tableName : {"", "t"}, csvPath : {Undefined, "dir/data.csv", "dir/none.csv"},
             mode : {Undefined, "append"}]
      [] op = "uploadFile" ->
            [orgId : {Undefined, "", "org1"},
             filePath : {Undefined, "", "dir/data.csv", "dir/none.csv"}]
      [] op = "uploadFileFromBuffer" ->
            [orgId : {Undefined, "org1"}, data : Buffers,
             filename : {Undefined, "", "f.bin"}, contentType : {Undefined, "text/plain"}]
      [] OTHER ->
            [orgId : {Undefined, "org1"}, appId : {"", "app1"}, input : Inputs,
             version_id : {Undefined, "", "v1"}, group_id : {Undefined, "g1"},
             parent_id : {"", "p1"}]

\* What the services are constructed with and what setDefaults is given.
DefaultLiterals(service) ==
    CASE service = "query" ->
            { Literal(<<>>, {}),
              Literal([orgId |-> "org0", kbId |-> "kb0"], {"sql"}),
              Literal([orgId |-> "", sql |-> "SELECT 0"], {}) }
      [] service = "table" ->
            { Literal(<<>>, {}), Literal([orgId |-> "org0", kbId |-> "kb0"], {}),
              Literal([kbId |-> ""], {"orgId"}) }
      [] OTHER ->
            { Literal(<<>>, {}), Literal([orgId |-> "org0"], {}),
              Literal([orgId |-> ""], {}) }

\* A client with one retry, and services constructed with or without
\* defaults.
InitWith(lits) ==
    /\ config = Construct([apiKey |-> "key", timeout |-> 50, retryAttempts |-> 1,
                           retryDelay |-> 100])
    /\ InitCalls
    /\ \E ls \in lits : InitServices(ls)

InitServed ==
    InitWith({ [s \in Services |-> l] : l \in DefaultLiterals("app") }
             \cup { [s \in Services |-> IF s = "query" THEN l ELSE Literal(<<>>, {})] :
                       l \in DefaultLiterals("query") })

\* The steps of a dispatch behind a service operation.
Dispatch(c) == StepWith(c, {}, FewResponses, FewMessages) /\ UNCHANGED <<clock, facade>>

\* The setDefaults calls made so far, over all the services.
Sets == Len(setLog["query"]) + Len(setLog["table"]) + Len(setLog["file"])
        + Len(setLog["app"]) - 4

\* One service operation, called with an options object, or testConnection,
\* on services whose defaults are set once at most after construction.
NextServed ==
    \/ \E op \in Operations : \E o \in ServiceArgs(op) : ServiceCall("a", op, o)
    \/ TestConnection("a")
    \/ Dispatch("a")
    \/ Settle("a")
    \/ \E s \in Services : \E lit \in DefaultLiterals(s) :
          Sets < 1 /\ SetDefaults(s, lit)

SpecServed == InitServed /\ [][NextServed]_vars

\* The operations that have a positional variant.
PositionalOperations == Operations \ {"uploadFileFromBuffer"}

\* The positional parameters that carry the values of the options object o.
Positional(op, o) ==
    CASE op = "query" -> <<o.orgId, o.kbId, o.sql>>
      [] op = "createTable" -> <<o.orgId, o.kbId, o.name, o.columns, o.comment>>
      [] op = "importCsv" -> <<o.orgId, o.kbId, o.tableName, o.csvPath, o.mode>>
      [] op = "uploadFile" -> <<o.orgId, o.filePath>>
      [] OTHER -> <<o.orgId, o.appId, o.input, o.version_id, o.group_id, o.parent_id>>

\* An operation is called with an options object as "a", its positional
\* variant with the same values as "b"; the transport gives "b", attempt by
\* attempt, what it gave "a".
NextParams ==
    \/ \E op \in PositionalOperations : \E o \in ServiceArgs(op) : ServiceCall("a", op, o)
    \/ /\ called["a"].op # "none"
       /\ ServiceCallByParams("b", called["a"].op,
                              Positional(called["a"].op, called["a"].args))
    \/ \E c \in Calls : Settle(c)
    \/ /\ \/ \E r \in FewResponses :
                \/ Leads /\ FetchResponds("a", r)
                \/ Follows(Outcome("response", r, "")) /\ FetchResponds("b", r)
          \/ \E m \in FewMessages :
                \/ Leads /\ FetchFails("a", m)
                \/ Follows(Outcome("network", NoResponse, m)) /\ FetchFails("b", m)
          \/ Leads /\ TimeoutFires("a")
          \/ Follows(Outcome("timeout", NoResponse, "")) /\ TimeoutFires("b")
          \/ \E c \in Calls : ReadBody(c) \/ SleepDone(c)
          \/ \E c \in Calls : \E k \in timers[c] : StaleTimerFires(c, k)
       /\ UNCHANGED <<clock, facade>>

SpecParams == InitServed /\ [][NextParams]_vars

\* The dispatcher and the services, which the normalisation of messages and
\* the copies of the configuration leave alone.
client ==
    <<pc, opts, retryCount, response, timers, result, error, attempts, waits,
      firstOut, lastOut, kindsSeen, nRetryable, sent, armed, startConfig, ended,
      clock, lastUpdate, defaults, called, setLog, signals>>

\* The instances the normalisation creates: the n-th message it makes.
Fresh(n) == 100 + n

\* TimbalMessage.from(value)
From ==
    /\ norm.message = NoValue
    /\ norm' = [norm EXCEPT !.message = MessageFrom(norm.value, Fresh(1))]
    /\ UNCHANGED <<config, client, heap>>

\* TimbalMessage.from(message) of the message made
FromAgain ==
    /\ norm.message # NoValue
    /\ norm.again = NoValue
    /\ norm' = [norm EXCEPT !.again = MessageFrom(norm.message, Fresh(2))]
    /\ UNCHANGED <<config, client, heap>>

\* MessageContentFactory.from(value)
FactoryFrom ==
    /\ norm.content = NoValue
    /\ norm' = [norm EXCEPT !.content = ContentFrom(norm.value)]
    /\ UNCHANGED <<config, client, heap>>

\* The content items callers pass, each an object of its own.
TextItem(id, text) == Obj(id, << <<"type", Str("text")>>, <<"text", Str(text)>> >>)
ThinkingItem == Obj(6, << <<"type", Str("thinking")>>, <<"thinking", Str("hmm")>> >>)
ToolUseItem ==
    Obj(4, << <<"type", Str("tool_use")>>, <<"id", Str("call_456")>>,
              <<"name", Str("search")>>,
              <<"input", Obj(5, << <<"query", Str("test")>> >>)>> >>)
ImageItem == Obj(7, << <<"type", Str("image")>>, <<"url", Str("u")>> >>)
ToolResultItem(id, members) == Obj(id, << <<"type", Str("tool_result")>> >> \o members)
PlainObject == Obj(9, << <<"name", Str("John")>>, <<"age", Num("30")>>,
                        <<"active", Bool("true")>> >>)

\* Tool results: with one nested item that is not in an array, with an array
\* of items of every kind (a tool use and a tool result among them), with an
\* empty array, and with no content at all.
ToolResults ==
    LET single == ToolResultItem(8, << <<"id", Str("call_123")>>,
                                       <<"content", TextItem(2, "First")>> >>)
    IN  { single,
          ToolResultItem(8, << <<"id", Str("call_123")>>, <<"content", Str("done")>> >>),
          ToolResultItem(10, << <<"id", Str("call_9")>>,
                                <<"content", Arr(11, <<Str("Analysis"), ThinkingItem,
                                                       ToolUseItem, single, PlainObject,
                                                       TextItem(3, "Second")>>)>> >>),
          ToolResultItem(10, << <<"id", Num("7")>>, <<"content", Arr(11, <<>>)>> >>),
          ToolResultItem(10, <<>>) }

\* The values that are no objects.
Primitives == {Str("Hello"), Str(""), Num("42"), Bool("true"), Null, Undef}

\* The arrays callers pass to TimbalMessage.from.
ContentArrays ==
    { Arr(1, <<TextItem(2, "First"), TextItem(3, "Second")>>),
      Arr(1, <<TextItem(2, "First"), ToolUseItem>>),
      Arr(1, <<Str("Hello"), Num("42"), Bool("true")>>),
      Arr(1, <<TextItem(2, "First")>>),
      Arr(1, <<>>) }

\* The objects callers pass to TimbalMessage.from: with a content (a string,
\* an item, an array) and with or without a role, and without a content.
MessageObjects ==
    { Obj(1, << <<"role", Str("assistant")>>, <<"content", Str("Hi")>> >>),
      Obj(1, << <<"role", Str("user")>>,
                <<"content", Arr(12, <<TextItem(2, "First"), Str("Hello")>>)>> >>),
      Obj(1, << <<"content", TextItem(2, "First")>> >>),
      Obj(1, << <<"role", Str("")>>, <<"content", Str("x")>> >>),
      Obj(1, << <<"role", Str("assistant")>>, <<"someData", Str("value")>> >>),
      Obj(1, <<>>),
      PlainObject }

\* The TimbalMessage instances callers pass.
Messages == {Instance(1, Str("assistant"), <<TextItem(2, "First")>>)}

MessageValues ==
    Primitives \cup ContentArrays \cup MessageObjects \cup Messages \cup ToolResults
    \cup {TextItem(2, "First"), ThinkingItem, ToolUseItem, ImageItem}

\* A value is given; nothing is made of it yet.
InitMessage ==
    /\ config = Construct([apiKey |-> "key"])
    /\ InitDispatch
    /\ InitServices(NoLiterals)
    /\ heap = NoHeap
    /\ norm \in { Norm(v, NoValue, NoValue, NoValue) : v \in MessageValues }

\* The normalisation of one value.
NextMessage == From \/ FromAgain \/ FactoryFrom

SpecMessage == InitMessage /\ [][NextMessage]_vars

\* The setDefaults calls made in the specification of the defaults.
MaxSets == 2

\* getDefaults() of a service: an object of its default fields.
getDefaults(service) == defaults[service]

\* Services constructed with or without defaults.
InitDefaults ==
    InitWith({ ls \in [Services -> UNION {DefaultLiterals(x) : x \in Services}] :
                 \A s \in Services : ls[s] \in DefaultLiterals(s) })

\* The defaults alone: construction, then setDefaults calls.
NextDefaults ==
    \E s \in Services : \E lit \in DefaultLiterals(s) : Sets < MaxSets /\ SetDefaults(s, lit)

SpecDefaults == InitDefaults /\ [][NextDefaults]_vars

\* The longest a response body takes to arrive in the timed specification.
MaxBodyTime == 1000

Last(seq) == seq[Len(seq)]

\* How long fetch takes to settle when the timer does not fire first, and
\* how long a body takes to be read: no time or the longest possible.
FetchTimes(c) == IF armed[c] = <<>> THEN {0} ELSE {0, Last(armed[c]) - 1}
BodyTimes == {0, MaxBodyTime}

\* The time d passes in the dispatch c, all of it awaiting a body if inBody.
Tick(c, d, inBody) ==
    /\ elapsed' = Set(elapsed, c, elapsed[c] + d)
    /\ bodyTime' = Set(bodyTime, c, bodyTime[c] + (IF inBody THEN d ELSE 0))
    /\ UNCHANGED facade

\* The steps of one dispatch with the time each takes: a timer fires when
\* its delay has passed, a sleep ends when its delay has passed.
NextTimed ==
    \/ (\E o \in {NoOptions} : Request("a", o)) /\ UNCHANGED <<clock, facade>>
    \/ \E r \in FewResponses, d \in FetchTimes("a") :
          FetchResponds("a", r) /\ Tick("a", d, FALSE)
    \/ \E m \in FewMessages, d \in FetchTimes("a") :
          FetchFails("a", m) /\ Tick("a", d, FALSE)
    \/ TimeoutFires("a") /\ Tick("a", Last(armed["a"]), FALSE)
    \/ \E d \in BodyTimes : ReadBody("a") /\ Tick("a", d, TRUE)
    \/ SleepDone("a") /\ Tick("a", Last(waits["a"]), FALSE)
    \/ (\E k \in timers["a"] : StaleTimerFires("a", k)) /\ UNCHANGED <<clock, facade>>

SpecTimed == Init /\ [][NextTimed]_vars

\* A transport that may also leave a response body unfinished for ever.
LiveResponses ==
    FewResponses \cup {Response(200, "", StalledBody), Response(503, "reason", StalledBody)}

NextLive ==
    StepWith("a", {NoOptions}, LiveResponses, FewMessages) /\ UNCHANGED <<clock, facade>>

\* Timers fire and pending promises settle: an armed timeout timer whose
\* attempt still awaits fetch fires, a sleep ends, and a body that the
\* transport finishes is read.  Nothing makes the transport answer.
Fairness ==
    /\ WF_vars(TimeoutFires("a") /\ UNCHANGED <<clock, facade>>)
    /\ WF_vars(SleepDone("a") /\ UNCHANGED <<clock, facade>>)
    /\ WF_vars(ReadBody("a") /\ UNCHANGED <<clock, facade>>)

SpecLive == InitFull /\ [][NextLive]_vars /\ Fairness

\* ------------------------------------------------------------- claims

Terminal(c) == pc[c] \in {"returned", "raised"}

Min(a, b) == IF a <= b THEN a ELSE b

RECURSIVE SumSeq(_)
SumSeq(q) == IF q = <<>> THEN 0 ELSE Head(q) + SumSeq(Tail(q))

\* The first of message, error that the error body gives, else 'Unknown error'.
BodyMessage(b) ==
    CASE Truthy(b.message) -> b.message
      [] ~Truthy(b.message) /\ Truthy(b.error) -> b.error
      [] OTHER -> "Unknown error"

\* e is the classified error of the non-ok response r: r's status, and the
\* message, code and details of r's body when that is a JSON object.
CarriesResponse(e, r) ==
    /\ e.name = "TimbalApiError"
    /\ e.statusCode = r.status
    /\ IF r.body.kind = "object"
       THEN /\ e.message = <<BodyMessage(r.body)>>
            /\ e.code = r.body.code
            /\ e.details = r.body.details
       ELSE /\ e.message = <<IF r.statusText # "" THEN r.statusText ELSE "Unknown error">>
            /\ e.code = Undefined
            /\ e.details = Undefined

\* C1: a dispatch ends in exactly one of a returned success envelope and a
\* raised TimbalApiError: a returned dispatch has its envelope and no error,
\* a raised one has no envelope and its error is a TimbalApiError, and a
\* dispatch that has not ended has neither.
C1_ExactlyOneOutcome ==
    \A c \in Calls :
        /\ pc[c] = "returned" => result[c].success /\ error[c] = NoError
        /\ pc[c] = "raised" => result[c] = NoResult /\ error[c].name = "TimbalApiError"
        /\ ~Terminal(c) => result[c] = NoResult /\ error[c] = NoError

\* C2: a dispatch that has issued its request makes at most retryAttempts
\* retries, one attempt per retry plus the first, and once it has ended it
\* has made 1 + min(retryable failures, retryAttempts) attempts; with
\* retryAttempts = 0 that is one attempt and no wait.
C2_AttemptCount ==
    \A c \in Calls :
        attempts[c] >= 1 =>
            /\ Len(waits[c]) <= config.retryAttempts
            /\ attempts[c] = Len(waits[c]) + (IF pc[c] = "sleep" THEN 0 ELSE 1)
            /\ Terminal(c) =>
                attempts[c] = 1 + Min(nRetryable[c], config.retryAttempts)
            /\ config.retryAttempts = 0 => attempts[c] = 1 /\ waits[c] = <<>>

\* A dispatch used up all its retries on a mix of the three failure kinds.
C2_Witness ==
    /\ Terminal("a")
    /\ config.retryAttempts >= 2
    /\ attempts["a"] = 1 + config.retryAttempts
    /\ {"timeout", "network", "5xx"} \subseteq kindsSeen["a"]

\* C3: once the first attempt has received a 4xx status the dispatch makes no
\* other attempt and no backoff wait, and the error it raises carries that
\* response's status and the message, code and details of its body.
C3_ClientErrorNotRetried ==
    \A c \in Calls :
        Tag(firstOut[c]) = "4xx" =>
            /\ pc[c] \in {"body", "raised"}
            /\ attempts[c] = 1
            /\ waits[c] = <<>>
            /\ pc[c] = "raised" => CarriesResponse(error[c], firstOut[c].response)

\* A 4xx with a structured body was raised though retries were configured.
C3_Witness ==
    /\ pc["a"] = "raised"
    /\ config.retryAttempts > 0
    /\ Tag(firstOut["a"]) = "4xx"
    /\ firstOut["a"].response.body.code = "CODE_A"
    /\ error["a"].code = "CODE_A"

\* C4: a dispatch whose attempts all received a 5xx status raises, after
\* retryAttempts + 1 attempts, the error of the last attempt's response.
C4_LastServerError ==
    \A c \in Calls :
        Terminal(c) /\ kindsSeen[c] = {"5xx"} =>
            /\ pc[c] = "raised"
            /\ attempts[c] = config.retryAttempts + 1
            /\ CarriesResponse(error[c], lastOut[c].response)

\* The first and the last attempt received different 5xx responses and the
\* raised error is the last one's.
C4_Witness ==
    /\ pc["a"] = "raised"
    /\ kindsSeen["a"] = {"5xx"}
    /\ attempts["a"] >= 3
    /\ firstOut["a"].response.status # lastOut["a"].response.status
    /\ firstOut["a"].response.body.kind = "object"
    /\ lastOut["a"].response.body.kind = "object"
    /\ firstOut["a"].response.body.message # lastOut["a"].response.body.message
    /\ error["a"].statusCode = lastOut["a"].response.status

\* C5: the i-th backoff wait of a dispatch is retryDelay * i, and attempt N is
\* issued after exactly N - 1 waits: none before attempt 1, and
\* retryDelay * (N - 1) right before attempt N.
C5_BackoffDelays ==
    \A c \in Calls :
        /\ \A i \in 1..Len(waits[c]) : waits[c][i] = config.retryDelay * i
        /\ pc[c] = "fetch" => Len(waits[c]) = attempts[c] - 1

\* The third attempt is in flight after two failures of different kinds.
C5_Witness ==
    /\ pc["a"] = "fetch"
    /\ attempts["a"] = 3
    /\ Cardinality(kindsSeen["a"]) = 2
    /\ waits["a"] = <<config.retryDelay, 2 * config.retryDelay>>

\* C6: a dispatch whose attempts were all cancelled by their timeout raises
\* 'Request timeout' with status code 0 and code TIMEOUT_ERROR after
\* retryAttempts + 1 attempts.
C6_TimeoutExhausted ==
    \A c \in Calls :
        Terminal(c) /\ kindsSeen[c] = {"timeout"} =>
            /\ pc[c] = "raised"
            /\ attempts[c] = config.retryAttempts + 1
            /\ error[c].name = "TimbalApiError"
            /\ error[c].message = <<"Request timeout">>
            /\ error[c].statusCode = 0
            /\ error[c].code = "TIMEOUT_ERROR"

\* timeout = 50, retryAttempts = 1 and both attempts timed out.
C6_Witness ==
    /\ pc["a"] = "raised"
    /\ config.timeout = 50
    /\ config.retryAttempts = 1
    /\ kindsSeen["a"] = {"timeout"}
    /\ attempts["a"] = 2

\* C7: a dispatch whose attempts all failed in the transport before a status
\* raises, after retryAttempts + 1 attempts, an error with status code 0, code
\* NETWORK_ERROR and a message that embeds the last attempt's transport error.
C7_NetworkExhausted ==
    \A c \in Calls :
        Terminal(c) /\ kindsSeen[c] = {"network"} =>
            /\ pc[c] = "raised"
            /\ attempts[c] = config.retryAttempts + 1
            /\ error[c].name = "TimbalApiError"
            /\ error[c].statusCode = 0
            /\ error[c].code = "NETWORK_ERROR"
            /\ error[c].message = <<"Network error: ", lastOut[c].message>>

\* The first and the last attempt failed with different transport errors.
C7_Witness ==
    /\ pc["a"] = "raised"
    /\ kindsSeen["a"] = {"network"}
    /\ attempts["a"] >= 2
    /\ firstOut["a"].message # lastOut["a"].message

\* A returned dispatch: its envelope is the last attempt's parsed body and
\* status, all attempts before the last ended in retryable failures, and the
\* waits add up to retryDelay * (1 + ... + k).
C8_Returned(c) ==
    LET k == Len(waits[c])
    IN  /\ Ok(lastOut[c].response.status)
        /\ result[c] = [data |-> lastOut[c].response.body, success |-> TRUE,
                        statusCode |-> lastOut[c].response.status]
        /\ attempts[c] = k + 1
        /\ nRetryable[c] = k
        /\ k <= config.retryAttempts
        /\ 2 * SumSeq(waits[c]) = config.retryDelay * k * (k + 1)

C9_ParseErrorsNeverRetried ==
    \A c \in Calls :
        /\ (pc[c] = "raised" /\ Tag(lastOut[c]) \in {"timeout", "network", "5xx"})
           => Len(waits[c]) = config.retryAttempts
        /\ (\/ Tag(lastOut[c]) = "4xx"
            \/ lastOut[c].kind = "response" /\ lastOut[c].response.body.kind = "malformed")
           => pc[c] \in {"body", "raised"}

\* C9, amended: timeout, network and 5xx failures are raised only once the
\* retries are used up, whatever the body of the 5xx response; a 4xx response
\* or a success body that cannot be parsed ends the dispatch on its attempt.
C9_RetriedByStatus ==
    \A c \in Calls :
        /\ (pc[c] = "raised" /\ RetryableOutcome(lastOut[c]))
           => (/\ Len(waits[c]) = config.retryAttempts
               /\ attempts[c] = config.retryAttempts + 1)
        /\ (\/ Tag(lastOut[c]) = "4xx"
            \/ Tag(lastOut[c]) = "2xx" /\ lastOut[c].response.body.kind = "malformed")
           => pc[c] \in {"body", "raised"}

\* A 5xx with a malformed body was retried, and the retry ended the dispatch
\* on a success body that could not be parsed though retries remained.
C9_Witness ==
    /\ pc["a"] = "raised"
    /\ attempts["a"] = 2
    /\ config.retryAttempts >= 2
    /\ Tag(firstOut["a"]) = "5xx"
    /\ firstOut["a"].response.body.kind = "malformed"
    /\ Tag(lastOut["a"]) = "2xx"
    /\ lastOut["a"].response.body.kind = "malformed"

\* C10: the error raised by a dispatch whose final attempt received an HTTP
\* status (and the whole body) carries that status, not 0.
C10_HttpStatusKept ==
    \A c \in Calls :
        (/\ pc[c] = "raised"
         /\ lastOut[c].kind = "response"
         /\ lastOut[c].response.body.kind # "aborted")
        => (/\ error[c].name = "TimbalApiError"
            /\ error[c].statusCode = lastOut[c].response.status
            /\ error[c].statusCode # 0)


\* C11 (as stated; refuted under SpecUpdate): every attempt of a dispatch
\* uses the configuration in force when the dispatch was called: the URL and
\* the credential of the request sent, the number of retries allowed and the
\* backoff delays are those of that configuration, whatever updateConfig did
\* since.
C11_ConfigFixedPerDispatch ==
    \A c \in Calls :
        attempts[c] >= 1 =>
            /\ sent[c].url = BuildUrl(startConfig[c].baseUrl, opts[c].endpoint)
            /\ sent[c].headers = BuildHeaders(opts[c], startConfig[c])
            /\ attempts[c] <= startConfig[c].retryAttempts + 1
            /\ \A i \in DOMAIN waits[c] :
                   waits[c][i] = startConfig[c].retryDelay * i

\* C12 (as stated; refuted under SpecUpdate): every attempt of a dispatch is
\* timed with the timeout in force when the dispatch was called, retry
\* attempts that start after an updateConfig included.
C12_OldTimeoutKept ==
    \A c \in Calls :
        \A i \in DOMAIN armed[c] : armed[c][i] = startConfig[c].timeout


\* What one dispatch holds: its position, its parameters and locals, and what
\* it has done so far.
CallState(c) ==
    <<pc[c], opts[c], retryCount[c], response[c], timers[c], result[c],
      error[c], attempts[c], waits[c], lastOut[c], nRetryable[c], sent[c],
      armed[c]>>

\* C13: of two dispatches under way on one client, a step of one leaves the
\* other's retry counter, timers, attempts, waits and outcome as they were,
\* and each ends as its own transport outcomes decide: after
\* 1 + min(own retryable failures, retryAttempts) attempts, with the waits
\* retryDelay * i, returning exactly when its own last attempt got a 2xx.
C13_Independent ==
    /\ [](\A c \in Calls :
            /\ timers[c] \subseteq 0..retryCount[c]
            /\ \A i \in DOMAIN waits[c] : waits[c][i] = config.retryDelay * i
            /\ Terminal(c) =>
                  /\ attempts[c] = 1 + Min(nRetryable[c], config.retryAttempts)
                  /\ (pc[c] = "returned") = (Tag(lastOut[c]) = "2xx"))
    /\ [][\A c \in Calls :
            CallState(c)' # CallState(c) =>
                \A d \in Calls \ {c} : CallState(d)' = CallState(d)]_vars

\* One dispatch waits for its second retry while the other
\* has ended on a 4xx after one attempt.
C13_Witness ==
    /\ pc["a"] = "sleep"
    /\ Len(waits["a"]) = 2
    /\ pc["b"] = "raised"
    /\ attempts["b"] = 1
    /\ Tag(lastOut["b"]) = "4xx"
    /\ timers["b"] = {}


\* An attempt of the dispatch c is in flight: fetch was called and neither
\* it nor the reading of the body has ended.
InFlight(c) == pc[c] \in {"fetch", "body"}

\* C14: a dispatch has at most one attempt in flight, all the attempts before
\* it having ended; and an attempt after the first is issued only by the end
\* of a backoff wait, the attempt before it having ended in a retryable
\* failure and been followed by exactly that wait.
C14_OneAttemptInFlight ==
    /\ [](\A c \in Calls :
            /\ attempts[c] - ended[c] = (IF InFlight(c) THEN 1 ELSE 0)
            /\ pc[c] = "sleep" => RetryableOutcome(lastOut[c]))
    /\ [][\A c \in Calls :
            attempts[c]' # attempts[c] =>
                /\ attempts[c]' = attempts[c] + 1
                /\ ~InFlight(c)
                /\ attempts[c] >= 1 =>
                      /\ pc[c] = "sleep"
                      /\ ended[c] = attempts[c]
                      /\ RetryableOutcome(lastOut[c])
                      /\ Len(waits[c]) = attempts[c]
                      /\ waits[c]' = waits[c]]_vars

\* The third attempt is in flight after two attempts that ended in failures
\* of different kinds.
C14_Witness ==
    /\ pc["a"] = "fetch"
    /\ attempts["a"] = 3
    /\ ended["a"] = 2
    /\ {"5xx", "network"} \subseteq kindsSeen["a"]


\* C15 (as stated; refuted under SpecLive): a dispatch that was called
\* eventually returns or raises, whatever the transport does.
C15_EventuallyTerminal == (pc["a"] # "idle") ~> Terminal("a")


\* What the dispatch c holds apart from its armed timers.
CallProgress(c) ==
    <<pc[c], retryCount[c], response[c], result[c], error[c], attempts[c],
      waits[c], lastOut[c], ended[c]>>

\* C16: every attempt arms a timer of its own with the configured timeout,
\* and the attempt awaiting fetch has its timer armed; a timer that goes off
\* (it leaves the armed timers while fetch has not resolved) either ends the
\* attempt it was armed for, then pending, as a timeout, or changes nothing;
\* it never touches another dispatch.
C16_OwnTimer ==
    /\ [](\A c \in Calls :
            /\ Len(armed[c]) = attempts[c]
            /\ \A i \in DOMAIN armed[c] : armed[c][i] = config.timeout
            /\ timers[c] \subseteq 0..retryCount[c]
            /\ pc[c] = "fetch" => retryCount[c] \in timers[c])
    /\ [][\A c \in Calls : \A k \in timers[c] \ timers[c]' :
            \/ pc[c] = "fetch" /\ pc[c]' = "body"
            \/ /\ CallProgress(c)' = CallProgress(c)
               /\ \A d \in Calls \ {c} : CallState(d)' = CallState(d)
            \/ /\ pc[c] = "fetch"
               /\ k = retryCount[c]
               /\ attempts[c] = k + 1
               /\ Tag(lastOut[c]') = "timeout"
               /\ ended[c]' = ended[c] + 1
               /\ \A d \in Calls \ {c} : CallState(d)' = CallState(d)]_vars

\* The timer of the first attempt, which a network failure ended, is still
\* armed while the second attempt awaits fetch, as does an attempt of the
\* other dispatch.
C16_Witness ==
    /\ pc["a"] = "fetch"
    /\ retryCount["a"] = 1
    /\ timers["a"] = {0, 1}
    /\ pc["b"] = "fetch"
    /\ timers["b"] # {}


\* sum(retryDelay * i for i in 1..n)
RECURSIVE BackoffSum(_, _)
BackoffSum(retryDelay, n) ==
    IF n = 0 THEN 0 ELSE retryDelay * n + BackoffSum(retryDelay, n - 1)

\* C17 (as stated; refuted under SpecTimed): a dispatch takes at most
\* timeout + sum(retryDelay * i for i in 1..retryAttempts) from its call to
\* its end.
C17_SpecBound ==
    \A c \in Calls :
        elapsed[c] <= config.timeout + BackoffSum(config.retryDelay, config.retryAttempts)

\* C17 (amended): the time a dispatch spends outside the reading of response
\* bodies is at most one timeout per attempt made plus the waits made, hence
\* at most (retryAttempts + 1) * timeout
\* + sum(retryDelay * i for i in 1..retryAttempts).
C17_WallTimeBound ==
    \A c \in Calls :
        /\ elapsed[c] - bodyTime[c] <= attempts[c] * config.timeout + SumSeq(waits[c])
        /\ elapsed[c] - bodyTime[c] <=
               (config.retryAttempts + 1) * config.timeout
               + BackoffSum(config.retryDelay, config.retryAttempts)

\* Every attempt of a dispatch with two retries or more timed out: the
\* bound is reached.
C17_Witness ==
    /\ pc["a"] = "raised"
    /\ config.retryAttempts >= 2
    /\ kindsSeen["a"] = {"timeout"}
    /\ elapsed["a"] = (config.retryAttempts + 1) * config.timeout
                      + BackoffSum(config.retryDelay, config.retryAttempts)
    /\ elapsed["a"] > config.timeout
                      + BackoffSum(config.retryDelay, config.retryAttempts)


\* The caller gave a header of the name n (lower case), in any letter case.
CallerHas(o, n) == \E i \in DOMAIN o.headers : Lower(o.headers[i][1]) = n

\* The request of the attempt under way, or of the latest made, has the
\* header n with the value v.
SentHeader(c, n, v) == n \in DOMAIN sent[c].headers /\ sent[c].headers[n] = v

\* C18 (as stated; refuted under SpecReq): the request of every attempt of a
\* dispatch with a string body and no content-type header from the caller
\* has Content-Type application/json.
C18_JsonDefaultForStrings ==
    \A c \in Calls :
        (/\ attempts[c] >= 1
         /\ opts[c].body.kind = "string"
         /\ ~CallerHas(opts[c], "content-type"))
        => SentHeader(c, "content-type", "application/json")

\* C18 (amended): the request of every attempt of a dispatch with a string
\* body that is not empty and no content-type header from the caller has
\* Content-Type application/json and that body; post with {sql: "SELECT 1"}
\* sends the body {"sql":"SELECT 1"} with that header; an empty string body
\* gets no Content-Type.
C18_JsonDefaultForNonEmptyStrings ==
    \A c \in Calls :
        attempts[c] >= 1 =>
            /\ (/\ opts[c].body.kind = "string"
                /\ ~CallerHas(opts[c], "content-type"))
               => /\ sent[c].body = opts[c].body
                  /\ IF opts[c].body.text # ""
                     THEN SentHeader(c, "content-type", "application/json")
                     ELSE "content-type" \notin DOMAIN sent[c].headers
            /\ opts[c] = PostOptions(ObjectData(<< <<"sql", "SELECT 1">> >>))
               => /\ sent[c].body = StringBody("{\"sql\":\"SELECT 1\"}")
                  /\ SentHeader(c, "content-type", "application/json")

\* The first retry of post(path, {sql: "SELECT 1"}) is under way.
C18_Witness ==
    /\ pc["a"] = "fetch"
    /\ attempts["a"] = 2
    /\ opts["a"].headers = <<>>
    /\ sent["a"].body.text = "{\"sql\":\"SELECT 1\"}"
    /\ SentHeader("a", "content-type", "application/json")


\* C19: in the request of every attempt, a FormData or Blob body without a
\* content-type header from the caller has no Content-Type header at all,
\* and a content-type header from the caller (the type given to postText or
\* postFile included) is sent with the caller's value.
C19_ContentTypeNotForced ==
    \A c \in Calls :
        attempts[c] >= 1 =>
            /\ sent[c].body = opts[c].body
            /\ (/\ opts[c].body.kind \in {"formdata", "blob"}
                /\ ~CallerHas(opts[c], "content-type"))
               => "content-type" \notin DOMAIN sent[c].headers
            /\ CallerHas(opts[c], "content-type")
               => SentHeader(c, "content-type",
                             NewHeaders(opts[c].headers)["content-type"])
            /\ \A t \in {"text/csv", "image/png"} :
                   opts[c] \in {PostTextOptions("a,b", t), PostFileOptions(t)}
                   => SentHeader(c, "content-type", t)

\* The first retry of postText(path, "a,b", "text/csv") is under way.
C19_Witness ==
    /\ pc["a"] = "fetch"
    /\ attempts["a"] = 2
    /\ opts["a"] = PostTextOptions("a,b", "text/csv")
    /\ SentHeader("a", "content-type", "text/csv")

\* C20: the request of every attempt has the header Authorization with the
\* value 'Bearer ' and the configured credential unless the caller gave a
\* header of that name in any letter case, and every header the caller gave
\* is sent with the caller's value.
C20_BearerUnlessOverridden ==
    \A c \in Calls :
        attempts[c] >= 1 =>
            /\ "authorization" \in DOMAIN sent[c].headers
            /\ ~CallerHas(opts[c], "authorization")
               => SentHeader(c, "authorization", "Bearer " \o config.apiKey)
            /\ \A n \in DOMAIN NewHeaders(opts[c].headers) :
                   SentHeader(c, n, NewHeaders(opts[c].headers)[n])

\* A retry is under way of a dispatch whose caller gave AUTHORIZATION in
\* capitals: the caller's value is sent, not the bearer credential.
C20_Witness ==
    /\ pc["a"] = "fetch"
    /\ attempts["a"] = 2
    /\ CallerHas(opts["a"], "authorization")
    /\ SentHeader("a", "authorization", "Token t")
    /\ SentHeader("a", "x-custom-header", "value")


\* The string without its last piece if that is a slash, and without its
\* first piece if that is a slash.
TrimEnd(str) ==
    IF str # <<>> /\ str[Len(str)] = "/" THEN SubSeq(str, 1, Len(str) - 1) ELSE str
TrimStart(str) ==
    IF str # <<>> /\ str[1] = "/" THEN Tail(str) ELSE str

\* At most one slash ends the base, at most one starts the path.
OneSlashAtMost(base, path) ==
    /\ TrimEnd(base) = <<>> \/ TrimEnd(base)[Len(TrimEnd(base))] # "/"
    /\ TrimStart(path) = <<>> \/ TrimStart(path)[1] # "/"

\* C21: for a base with or without a trailing slash and a path with or
\* without a leading slash, the URL of every attempt is the base without
\* that slash, one slash, and the path without that slash: the same URL for
\* the four combinations, with exactly one slash at the join.
C21_UrlJoin ==
    \A c \in Calls :
        LET base == TrimEnd(config.baseUrl)
            path == TrimStart(opts[c].endpoint)
            url == sent[c].url
        IN  (attempts[c] >= 1 /\ OneSlashAtMost(config.baseUrl, opts[c].endpoint)) =>
                /\ url = base \o <<"/">> \o path
                /\ url[Len(base)] # "/"
                /\ url[Len(base) + 1] = "/"
                /\ Len(url) > Len(base) + 1 => url[Len(base) + 2] # "/"

\* A retry is under way to https://api.test.com/orgs/o/apps/a/runs/collect,
\* built from a base with a trailing slash and a path with a leading one.
C21_Witness ==
    /\ pc["a"] = "fetch"
    /\ attempts["a"] = 2
    /\ config.baseUrl[Len(config.baseUrl)] = "/"
    /\ opts["a"].endpoint # <<>>
    /\ opts["a"].endpoint[1] = "/"
    /\ sent["a"].url = <<"https:", "/", "/", "api.test.com", "/", "orgs", "/", "o", "/",
                         "apps", "/", "a", "/", "runs", "/", "collect">>


\* C22: a dispatch through any public method issues attempts; and of two
\* dispatches through any two public methods that got the same transport
\* outcomes, attempt by attempt, under the same configuration, when one has
\* ended or waits the other has ended or waits likewise, after as many
\* attempts and the same backoff waits, with the same result or error.
C22_SameCore ==
    /\ \A c \in Calls : pc[c] # "idle" => attempts[c] >= 1
    /\ (Noted("a") = Noted("b") /\ Noted("a") >= 1
        /\ pc["a"] \in {"returned", "raised", "sleep"}
        /\ pc["b"] \in {"returned", "raised", "sleep"})
       => /\ pc["a"] = pc["b"]
          /\ attempts["a"] = attempts["b"]
          /\ waits["a"] = waits["b"]
          /\ result["a"] = result["b"]
          /\ error["a"] = error["b"]

\* A multipart post and a get both raised after the same failures and two
\* retries.
C22_Witness ==
    /\ opts["a"] = PostFormDataOptions
    /\ opts["b"] = GetOptions
    /\ pc["a"] = "raised"
    /\ pc["b"] = "raised"
    /\ attempts["b"] = 3
    /\ Cardinality(kindsSeen["b"]) >= 2


ConfigKeys == {"apiKey", "baseUrl", "timeout", "retryAttempts", "retryDelay"}

\* Reading the key k gives the same in the objects a and b.
SameAt(a, b, k) ==
    /\ (k \in DOMAIN a) = (k \in DOMAIN b)
    /\ k \in DOMAIN a => a[k] = b[k]

\* C23: after updateConfig(u), getConfig gives for every key of u the value
\* u has for it (undefined if that is what u has) and for every other key
\* the value it gave before the call.
C23_UpdateIsMerge ==
    lastUpdate # NoUpdate =>
        LET u == lastUpdate.lit
        IN  \A k \in ConfigKeys :
                /\ k \in DOMAIN u.given =>
                      k \in DOMAIN getConfig /\ getConfig[k] = u.given[k]
                /\ k \in u.undefined => k \notin DOMAIN getConfig
                /\ k \notin DOMAIN u.given \cup u.undefined =>
                      SameAt(getConfig, lastUpdate.before, k)

\* updateConfig({timeout: 15000}) on a client constructed with a base
\* address and a number of retries of its own changed the timeout only.
C23_Witness ==
    /\ ConfigKeys \subseteq DOMAIN getConfig
    /\ lastUpdate.lit = Literal([k \in {"timeout"} |-> 15000], {})
    /\ "timeout" \in DOMAIN lastUpdate.before
    /\ lastUpdate.before.timeout # 15000
    /\ getConfig.timeout = 15000
    /\ getConfig.apiKey = "key2"
    /\ getConfig.baseUrl = <<"a", "l", "t">>
    /\ getConfig.retryAttempts = 0
    /\ getConfig.retryDelay = 100

\* C24 (as stated; refuted under SpecConfig): after construction and after
\* every sequence of updateConfig calls, base address, timeout,
\* retryAttempts and retryDelay have a value and retryAttempts is an
\* integer >= 0.
C24_ConfigWellFormed ==
    /\ {"baseUrl", "timeout", "retryAttempts", "retryDelay"} \subseteq DOMAIN config
    /\ config.retryAttempts \in Nat

\* ------------------------------------------------ service operations

\* The parameters each operation requires, in the order it checks them.
RequiredParams(op) ==
    CASE op = "query" -> <<"orgId", "kbId", "sql">>
      [] op = "createTable" -> <<"orgId", "kbId", "name", "columns">>
      [] op = "importCsv" -> <<"orgId", "kbId", "tableName", "csvPath">>
      [] op = "uploadFile" -> <<"orgId", "filePath">>
      [] op = "uploadFileFromBuffer" -> <<"orgId", "data", "filename">>
      [] OTHER -> <<"orgId", "appId", "input">>

\* The parameters that are collections, not strings.
Collections == {"columns", "input", "data"}

\* The value of a parameter of the call once the defaults are resolved.
Resolved(call, name) ==
    IF name \in DOMAIN call.defaults /\ call.args[name] = Undefined
    THEN call.defaults[name]
    ELSE call.args[name]

\* The parameter is missing or empty after the defaults are resolved.
Lacking(call, name) ==
    IF name \in Collections
    THEN call.args[name].kind = "undefined" \/ call.args[name].fields = <<>>
    ELSE Resolved(call, name) \in {Undefined, ""}

\* The same, but for data, which is only required to be there.
LackingForCode(call, name) ==
    IF name = "data" THEN call.args[name].kind = "undefined" ELSE Lacking(call, name)

\* The first of the parameters ps that meets the condition.
First(ps, Cond(_)) ==
    ps[CHOOSE i \in 1..Len(ps) : Cond(ps[i]) /\ \A j \in 1..(i - 1) : ~Cond(ps[j])]

\* An operation called with an options object.
ByOptions(c) == called[c].op \in Operations /\ called[c].variant = "options"

\* The call was rejected, before any request, with the Error whose message
\* starts with the name and goes on with the words.
RejectedFor(c, name, words) ==
    /\ pc[c] = "raised"
    /\ attempts[c] = 0
    /\ sent[c] = NoSent
    /\ error[c].name = "Error"
    /\ error[c].message[1] = name
    /\ error[c].message[2] = words

\* C25 as stated: an operation with a required parameter missing or empty
\* after the defaults are resolved rejects with '<name> is required' for the
\* first such parameter and issues no request.
C25_RequiredOrRejected ==
    \A c \in Calls :
        LET call == called[c]
            ps == RequiredParams(call.op)
            Lacks(name) == Lacking(call, name)
        IN  (ByOptions(c) /\ \E i \in 1..Len(ps) : Lacks(ps[i])) =>
                RejectedFor(c, First(ps, Lacks), " is required")

\* C25: an operation with a required string parameter missing or empty
\* after the defaults are resolved, with columns or input missing or empty,
\* or with data missing, issues no request and rejects with an Error naming
\* the first such parameter: '<name> is required', and for columns 'columns
\* are required and cannot be empty.'; data of no bytes is not rejected.
C25_RejectedAsCoded ==
    \A c \in Calls :
        LET call == called[c]
            ps == RequiredParams(call.op)
            Lacks(name) == LackingForCode(call, name)
        IN  (ByOptions(c) /\ \E i \in 1..Len(ps) : Lacks(ps[i])) =>
                RejectedFor(c, First(ps, Lacks),
                            IF First(ps, Lacks) = "columns"
                            THEN " are required and cannot be empty."
                            ELSE " is required")

\* createTable with an empty list of columns, its other parameters given,
\* was rejected for its columns.
C25_Witness ==
    /\ called["a"].op = "createTable"
    /\ called["a"].variant = "options"
    /\ called["a"].args.columns = Given("array", <<>>)
    /\ called["a"].outcome = "rejected"
    /\ RejectedFor("a", "columns", " are required and cannot be empty.")

\* The path of the request the dispatch sent: its URL after the base address
\* and the slash.
UrlPath(c) == SubSeq(sent[c].url, Len(config.baseUrl) + 2, Len(sent[c].url))

\* The value the call is to use for a defaultable parameter: the one the
\* call gives if it gives one, else the default the service had at the call.
GivenElseDefault(call, key) ==
    IF call.args[key] # Undefined THEN call.args[key] ELSE call.defaults[key]

\* C26: the request of an operation carries, for orgId, kbId and sql, the
\* value the call gave if it gave one and otherwise the default its service
\* had at the call (orgId and kbId in the path, sql in the body); and a call
\* leaves the defaults of every service as they were.
C26_GivenElseDefault ==
    /\ [](\A c \in Calls :
            LET call == called[c]
            IN  (ByOptions(c) /\ attempts[c] >= 1) =>
                    /\ SubSeq(UrlPath(c), 1, 3) =
                            <<"orgs", "/", GivenElseDefault(call, "orgId")>>
                    /\ call.op \in {"query", "createTable", "importCsv"} =>
                            SubSeq(UrlPath(c), 4, 7) =
                                <<"/", "kbs", "/", GivenElseDefault(call, "kbId")>>
                    /\ call.op = "query" =>
                            sent[c].body.text =
                                "{\"sql\":\"" \o GivenElseDefault(call, "sql") \o "\"}")
    /\ [][(\E c \in Calls : called[c].op = "none" /\ called'[c].op # "none")
            => defaults' = defaults]_vars

\* A query that gave its own orgId and no kbId, to a service with defaults
\* for both, is retried with the orgId given and the default kbId; the
\* default orgId is as it was.
C26_Witness ==
    /\ called["a"].op = "query"
    /\ called["a"].args = [orgId |-> "org1", kbId |-> Undefined, sql |-> "SELECT 2"]
    /\ called["a"].defaults.orgId = "org0"
    /\ defaults["query"].orgId = "org0"
    /\ attempts["a"] = 2
    /\ UrlPath("a") = <<"orgs", "/", "org1", "/", "kbs", "/", "kb0", "/", "query">>
    /\ sent["a"].body.text = "{\"sql\":\"SELECT 2\"}"

\* The object gives the field a value.
Supplies(lit, key) == key \in DOMAIN lit.given

\* The value the latest of the objects in the log that supplied the field
\* gave it; the first object of the log is the constructor's, which leaves a
\* field it is not given undefined.
RECURSIVE Latest(_, _)
Latest(log, key) ==
    IF Len(log) = 1
    THEN IF Supplies(log[1], key) THEN log[1].given[key] ELSE Undefined
    ELSE IF Supplies(log[Len(log)], key) THEN log[Len(log)].given[key]
    ELSE Latest(SubSeq(log, 1, Len(log) - 1), key)

\* C27: getDefaults of a service returns for each field the value of the
\* latest setDefaults call that gave the field a value, and the
\* constructor's value if none did; and a setDefaults call changes no field
\* it gives no value, and no field of another service.
C27_LatestSupplied ==
    /\ [](\A s \in Services :
            /\ DOMAIN getDefaults(s) = DefaultKeys(s)
            /\ \A key \in DefaultKeys(s) : getDefaults(s)[key] = Latest(setLog[s], key))
    /\ [][\A s \in Services : \A key \in DefaultKeys(s) :
            (setLog'[s] = setLog[s] \/ ~Supplies(setLog'[s][Len(setLog'[s])], key))
                => getDefaults(s)'[key] = getDefaults(s)[key]]_vars

\* After setDefaults({orgId: 'org0', kbId: 'kb0'}) and then
\* setDefaults({orgId: '', sql: 'SELECT 0'}) on a query service constructed
\* without defaults, getDefaults returns the later orgId, the kbId of the
\* first call and the sql of the second.
C27_Witness ==
    /\ Len(setLog["query"]) = 3
    /\ setLog["query"][1] = Literal(<<>>, {})
    /\ setLog["query"][2] = Literal([orgId |-> "org0", kbId |-> "kb0"], {"sql"})
    /\ getDefaults("query") = [orgId |-> "", kbId |-> "kb0", sql |-> "SELECT 0"]

\* The operation behind the dispatch was rejected by a parameter check.
Refused(c) == pc[c] = "raised" /\ attempts[c] = 0

\* C28: a positional variant called with the values of an options object,
\* on a service with the same defaults, is rejected exactly when the call
\* with the options object is, with the same error; it sends the same
\* request (method, URL, headers, body); and under the same transport
\* outcomes, attempt by attempt, it ends likewise for its caller, with the
\* same result or error.
C28_SameAsOptions ==
    (/\ called["a"].variant = "options"
     /\ called["b"].variant = "positional"
     /\ called["b"].op = called["a"].op
     /\ called["b"].args = Positional(called["a"].op, called["a"].args)
     /\ called["b"].defaults = called["a"].defaults)
    => /\ Refused("a") <=> Refused("b")
       /\ Refused("a") => error["a"] = error["b"]
       /\ ~Refused("a") => opts["a"] = opts["b"] /\ sent["a"] = sent["b"]
       /\ (Noted("a") = Noted("b")
           /\ pc["a"] \in {"returned", "raised", "sleep"}
           /\ pc["b"] \in {"returned", "raised", "sleep"})
          => /\ pc["a"] = pc["b"]
             /\ attempts["a"] = attempts["b"]
             /\ result["a"] = result["b"]
             /\ error["a"] = error["b"]
             /\ (called["a"].outcome # "pending" /\ called["b"].outcome # "pending")
                    => called["a"].outcome = called["b"].outcome

\* importCsv and importCsvByParams, both without a mode, resolved after a
\* retry each of a post to .../tables/t/csv?mode=overwrite.
C28_Witness ==
    /\ called["a"].op = "importCsv"
    /\ called["a"].args.mode = Undefined
    /\ called["b"].variant = "positional"
    /\ called["b"].args = <<"org1", "kb1", "t", "dir/data.csv", Undefined>>
    /\ called["a"].outcome = "resolved"
    /\ called["b"].outcome = "resolved"
    /\ attempts["b"] = 2
    /\ UrlPath("b") = <<"orgs", "/", "org1", "/", "kbs", "/", "kb1", "/", "tables", "/",
                        "t", "/", "csv?mode=overwrite">>

\* The text of a member after the first of a JSON object, if it is there.
Then(key, value, there) == IF there THEN "," \o Quote(key) \o ":" \o Quote(value) ELSE ""

\* The request of a runApp call is a POST to
\* orgs/<orgId>/apps/<appId>/runs/collect whose payload has the input and
\* then those of version_id, group_id and parent_id that Has holds of.
RunAppPosts(c, Has(_)) ==
    LET o == called[c].args
    IN  /\ opts[c].method = "POST"
        /\ UrlPath(c) = <<"orgs", "/", GivenElseDefault(called[c], "orgId"), "/", "apps",
                          "/", o.appId, "/", "runs", "/", "collect">>
        /\ sent[c].body.text =
              "{" \o Quote("input") \o ":{" \o Members(o.input.fields) \o "}"
                  \o Then("version_id", o.version_id, Has(o.version_id))
                  \o Then("group_id", o.group_id, Has(o.group_id))
                  \o Then("parent_id", o.parent_id, Has(o.parent_id))
                  \o "}"

\* C29 as stated: the payload of a runApp request has input, and each of
\* version_id, group_id and parent_id exactly when the caller gave it.
C29_OptionalWhenProvided ==
    \A c \in Calls :
        LET Provided(v) == v # Undefined
        IN  (called[c].op = "runApp" /\ attempts[c] >= 1) => RunAppPosts(c, Provided)

\* C29: the request of every attempt of runApp is a POST to
\* orgs/<orgId>/apps/<appId>/runs/collect whose payload has input, and each
\* of version_id, group_id and parent_id exactly when the caller gave it a
\* value that is not the empty string.
C29_OptionalWhenNonEmpty ==
    \A c \in Calls :
        LET NonEmpty(v) == v # Undefined /\ v # ""
        IN  (called[c].op = "runApp" /\ attempts[c] >= 1) => RunAppPosts(c, NonEmpty)

\* A runApp call with a version_id, no group_id and an empty parent_id is
\* retried with a payload of input and version_id.
C29_Witness ==
    /\ called["a"].op = "runApp"
    /\ called["a"].args.version_id = "v1"
    /\ called["a"].args.group_id = Undefined
    /\ called["a"].args.parent_id = ""
    /\ attempts["a"] = 2
    /\ sent["a"].body.text = "{\"input\":{\"prompt\":\"hello\"},\"version_id\":\"v1\"}"

\* The dispatch behind testConnection: the query SELECT 1 with the default
\* orgId and kbId of the query service if both are set to non-empty values,
\* otherwise GET /.
ProbeOf(c) ==
    LET d == called[c].defaults
    IN  IF d.orgId \notin {Undefined, ""} /\ d.kbId \notin {Undefined, ""}
        THEN /\ opts[c].method = "POST"
             /\ UrlPath(c) = <<"orgs", "/", d.orgId, "/", "kbs", "/", d.kbId, "/", "query">>
             /\ sent[c].body.text = "{\"sql\":\"SELECT 1\"}"
        ELSE /\ opts[c].method = "GET"
             /\ sent[c].url = config.baseUrl \o <<"/">>
             /\ sent[c].body.kind = "none"

\* C30: testConnection never rejects; it issues the query SELECT 1 if the
\* query defaults orgId and kbId are set (to non-empty values) and GET /
\* otherwise; and once it has ended it has returned true if that dispatch
\* returned and false if the dispatch raised, whatever it raised and after
\* however many attempts.
C30_TrueOrFalse ==
    \A c \in Calls :
        called[c].op = "testConnection" =>
            /\ called[c].outcome \in {"pending", "true", "false"}
            /\ attempts[c] >= 1
            /\ ProbeOf(c)
            /\ called[c].outcome = "true" => pc[c] = "returned"
            /\ called[c].outcome = "false" => pc[c] = "raised"

\* testConnection on a query service with defaults returned false after
\* its query timed out twice, the retry included.
C30_Witness ==
    /\ called["a"].op = "testConnection"
    /\ called["a"].defaults.orgId = "org0"
    /\ called["a"].outcome = "false"
    /\ attempts["a"] = 2
    /\ kindsSeen["a"] = {"timeout"}
    /\ error["a"].name = "TimbalApiError"

\* ----------------------------------------------------------- messages

\* The text content with the text.
IsText(c, text) == c.kind = "object" /\ c.of = << <<"type", Str("text")>>, <<"text", Str(text)>> >>

\* What an element of a content array is to become: a typed content
\* object is kept, a primitive is turned into text content.
Normalized(item, c) ==
    IF item.kind = "object" THEN c = item ELSE IsText(c, item.of)

\* C31: TimbalMessage.from of an array is a message of role 'user' whose
\* content has, in order, one item for each element of the array: the
\* element if it is a typed content object, text content if it is a
\* primitive.
C31_ArrayIsContent ==
    (norm.value.kind = "array" /\ norm.message # NoValue) =>
        /\ norm.message.of.role = Str("user")
        /\ Len(norm.message.of.content) = Len(norm.value.of)
        /\ \A i \in 1..Len(norm.value.of) :
              Normalized(norm.value.of[i], norm.message.of.content[i])

\* C32: TimbalMessage.from of an object that has no content property (and
\* is no content object: it has no type either) is a message with exactly
\* one item, the text content whose text is the JSON serialisation of the
\* object; its role is the object's if it has one, and 'user' otherwise.
C32_ObjectIsJsonText ==
    (/\ norm.value.kind = "object"
     /\ ~In("content", norm.value)
     /\ ~In("type", norm.value)
     /\ norm.message # NoValue)
    => /\ Len(norm.message.of.content) = 1
       /\ IsText(norm.message.of.content[1], Json(norm.value))
       /\ norm.message.of.role =
             (IF In("role", norm.value) THEN Get(norm.value, "role") ELSE Str("user"))

\* C33: TimbalMessage.from of a TimbalMessage is that instance, so that
\* from of what from made of any value is the message made; and
\* MessageContentFactory.from of an object that has a type other than
\* tool_result is that object.
C33_Idempotent ==
    /\ (norm.value.kind = "message" /\ norm.message # NoValue) =>
            norm.message = norm.value /\ norm.message.id = norm.value.id
    /\ norm.again # NoValue =>
            norm.again = norm.message /\ norm.again.id = norm.message.id
    /\ (/\ norm.value.kind = "object"
        /\ In("type", norm.value)
        /\ Get(norm.value, "type") # Str("tool_result")
        /\ norm.content # NoValue)
       => norm.content = norm.value /\ norm.content.id = norm.value.id

\* from was applied to the message it had made of an array, and gave that
\* message, the first instance it created.
C33_Witness ==
    /\ norm.value.kind = "array"
    /\ norm.message.id = Fresh(1)
    /\ norm.again = norm.message
    /\ norm.content # NoValue

\* The kinds of content a tool result may hold.
InToolResult == {Str("text"), Str("thinking"), Str("file")}

\* The items, each normalized, without those that are not text, thinking
\* or file content, in order.
RECURSIVE NestedOf(_)
NestedOf(items) ==
    IF items = <<>> THEN <<>>
    ELSE LET c == ContentFrom(items[1])
         IN  (IF Get(c, "type") \in InToolResult THEN <<c>> ELSE <<>>)
             \o NestedOf(Tail(items))

\* C34: MessageContentFactory.from of a tool_result is a tool_result whose
\* content is an array: of the one nested item if the content given is not
\* an array, and else of the nested items in order, each normalized, and
\* only those that are text, thinking or file content.
C34_ToolResultContent ==
    (/\ norm.value.kind = "object"
     /\ Get(norm.value, "type") = Str("tool_result")
     /\ norm.content # NoValue)
    => LET given == Get(norm.value, "content")
           made == Get(norm.content, "content")
       IN  /\ Get(norm.content, "type") = Str("tool_result")
           /\ made.kind = "array"
           /\ \A i \in 1..Len(made.of) : Get(made.of[i], "type") \in InToolResult
           /\ made.of = NestedOf(IF given.kind = "array" THEN given.of ELSE <<given>>)
           /\ given.kind # "array" => Len(made.of) <= 1

\* A tool result given six nested items, a tool use and a tool result among
\* them, holds four: the text, the thinking, the text of the untyped object
\* and the last text.
C34_Witness ==
    /\ Get(norm.value, "type") = Str("tool_result")
    /\ Len(Get(norm.value, "content").of) = 6
    /\ norm.content # NoValue
    /\ Len(Get(norm.content, "content").of) = 4
    /\ IsText(Get(norm.content, "content").of[1], "Analysis")
    /\ Get(norm.content, "content").of[2] = ThinkingItem
    /\ Get(norm.content, "content").of[4] = TextItem(3, "Second")

\* ------------------------------------------------------ error messages

\* The first of the texts that is there and not empty.
FirstOf(texts) ==
    texts[CHOOSE i \in 1..Len(texts) :
            /\ texts[i] \notin {Undefined, ""}
            /\ \A j \in 1..(i - 1) : texts[j] \in {Undefined, ""}]

\* The dispatch raised the error of a response with a non-success status.
RaisedOnStatus(c) ==
    /\ pc[c] = "raised"
    /\ lastOut[c].kind = "response"
    /\ ~(lastOut[c].response.status >= 200 /\ lastOut[c].response.status <= 299)

\* C35: the error raised for a response with a non-success status has the
\* status of the response; if the error body is a JSON object its message is
\* the body's message, else the body's error, else 'Unknown error', and its
\* code and details are the body's; if the body cannot be read as one its
\* message is the status text, else 'Unknown error', and it has no code and
\* no details.  The message is never empty.
C35_ErrorMessage ==
    \A c \in Calls :
        RaisedOnStatus(c) =>
            LET r == lastOut[c].response
                e == error[c]
            IN  /\ e.name = "TimbalApiError"
                /\ e.statusCode = r.status
                /\ e.message \notin {<<>>, <<"">>, <<Undefined>>}
                /\ IF r.body.kind = "object"
                   THEN /\ e.message =
                             <<FirstOf(<<r.body.message, r.body.error, "Unknown error">>)>>
                        /\ e.code = r.body.code
                        /\ e.details = r.body.details
                   ELSE /\ e.message = <<FirstOf(<<r.statusText, "Unknown error">>)>>
                        /\ e.code = Undefined
                        /\ e.details = Undefined

\* A 503 whose body has an empty message and an error field, received on
\* the last retry, was raised with the error field as its message.
C35_Witness ==
    /\ RaisedOnStatus("a")
    /\ attempts["a"] = config.retryAttempts + 1
    /\ attempts["a"] >= 2
    /\ lastOut["a"].response.status = 503
    /\ lastOut["a"].response.body.message = ""
    /\ error["a"].message = <<"errC">>
    /\ error["a"].code = "CODE_C"

\* ------------------------------------------------------- last attempt

\* The error a dispatch raises when the transport outcome out is its last.
Surfaces(out) ==
    CASE out.kind = "timeout" -> TimeoutError
      [] out.kind = "network" -> NetworkError(JsError("TypeError", out.message))
      [] out.kind = "response" /\ Tag(out) # "2xx" -> ResponseError(out.response)
      [] out.kind = "response" /\ out.response.body.kind = "aborted" ->
            NetworkError(JsError("TypeError", "terminated"))
      [] OTHER -> UnknownError(JsError("SyntaxError", "Unexpected token"))

\* The outcome is a failure that is not retried: a 4xx response, or a
\* success response whose body is not JSON.
TerminalFailure(out) ==
    \/ Tag(out) = "4xx"
    \/ Tag(out) = "2xx" /\ out.response.body.kind = "malformed"

\* C36: a dispatch that raised after an attempt raised the error of its
\* last attempt's outcome, whatever the earlier attempts got; one that
\* returned returned the response of its last attempt; and an attempt that
\* ended in a 4xx response or in a success body that is not JSON ended the
\* dispatch, whether or not retries remained.
C36_LastAttemptDecides ==
    \A c \in Calls :
        /\ (pc[c] = "raised" /\ attempts[c] >= 1) => error[c] = Surfaces(lastOut[c])
        /\ pc[c] = "returned" =>
              /\ Tag(lastOut[c]) = "2xx"
              /\ result[c] = Envelope(lastOut[c].response.body, lastOut[c].response.status)
        /\ (attempts[c] >= 1 /\ ended[c] = attempts[c] /\ TerminalFailure(lastOut[c]))
              => pc[c] = "raised"

\* After a 503, the first retry got a 404 and the dispatch raised it at
\* once, with a retry left.
C36_Witness ==
    /\ pc["a"] = "raised"
    /\ Tag(firstOut["a"]) = "5xx"
    /\ attempts["a"] = 2
    /\ config.retryAttempts > 1
    /\ Tag(lastOut["a"]) = "4xx"
    /\ error["a"].statusCode = 404

\* ------------------------------------------------------- timers disarmed

\* C37: once a dispatch has returned or raised, none of the timers its
\* attempts created is still armed.
C37_TimersDisarmed ==
    \A c \in Calls : Terminal(c) => timers[c] = {}

\* ------------------------------------------------------- caller's signal

\* The dispatcher's state apart from the signals.
dispatch ==
    <<config, pc, opts, retryCount, response, timers, result, error,
      attempts, waits, firstOut, lastOut, kindsSeen, nRetryable,
      sent, armed, startConfig, ended>>

\* What the signals leave alone.
apart == <<clock, lastUpdate, defaults, called, setLog, norm, heap>>

\* The signal the fetch of the dispatch c is given once the step has called
\* fetch, as it was otherwise.
Fetched(c, given) ==
    IF pc'[c] = "fetch"
    THEN FetchSignal(given, ControllerSignal(c, retryCount'[c]))
    ELSE signals[c].fetch

\* request(endpoint, { ...o, signal: given }), given the caller's own signal
\* or none (lines 338-343).
RequestWithSignal(c, o, given) ==
    /\ Request(c, o)
    /\ signals' = Set(signals, c, Signals(given, Fetched(c, given), FALSE))

\* The retry calls fetch again, with the same options.
SleepDoneSignal(c) ==
    /\ SleepDone(c)
    /\ signals' = Set(signals, c, [signals[c] EXCEPT !.fetch = Fetched(c, signals[c].given)])

\* The caller aborts the signal they passed: a fetch under way that was given
\* that signal rejects with an AbortError, any other is left alone.
CallerAborts(c) ==
    /\ signals[c].given # NoSignal
    /\ ~signals[c].aborted
    /\ signals' = Set(signals, c, [signals[c] EXCEPT !.aborted = TRUE])
    /\ IF pc[c] = "fetch" /\ signals[c].fetch = signals[c].given
       THEN /\ Catch(c, JsError("AbortError", "This operation was aborted"))
            /\ Note(c, Outcome("cancelled", NoResponse, ""))
            /\ ended' = Set(ended, c, ended[c] + 1)
            /\ UNCHANGED <<config, opts, retryCount, response, timers, result,
                           attempts, sent, armed, startConfig>>
       ELSE UNCHANGED dispatch

\* One dispatch through request(), with or without a signal of the caller's
\* among the options, which the caller may abort at any moment.
NextSignal ==
    /\ \/ \E o \in {NoOptions} : \E given \in {NoSignal, CallerSignal("a")} :
              RequestWithSignal("a", o, given)
       \/ SleepDoneSignal("a")
       \/ CallerAborts("a")
       \/ /\ \/ \E r \in FewResponses : FetchResponds("a", r)
             \/ \E m \in FewMessages : FetchFails("a", m)
             \/ TimeoutFires("a")
             \/ ReadBody("a")
             \/ \E k \in timers["a"] : StaleTimerFires("a", k)
          /\ UNCHANGED signals
    /\ UNCHANGED apart

SpecSignal == InitFull /\ [][NextSignal]_vars

\* C38: the signal of every attempt's fetch is the one of the attempt's own
\* controller, never the one the caller passed; the caller's abort leaves
\* the dispatch as it is; and a fetch under way ends otherwise than by a
\* response or a failure of the transport only in a step in which the
\* attempt's own timer fires.
C38_NoOutsideCancel ==
    /\ [](\A c \in Calls :
            pc[c] = "fetch" =>
                /\ signals[c].fetch = ControllerSignal(c, retryCount[c])
                /\ signals[c].fetch # signals[c].given)
    /\ [][\A c \in Calls :
            /\ (signals'[c].aborted /\ ~signals[c].aborted) => UNCHANGED dispatch
            /\ (pc[c] = "fetch" /\ pc'[c] # "fetch"
                    /\ lastOut'[c].kind \notin {"response", "network"})
                  => retryCount[c] \in timers[c] \ timers'[c]]_vars

\* The caller passed a signal and aborted it; the second attempt's fetch
\* had the controller's signal, and its timer ended it.
C38_Witness ==
    /\ signals["a"].given = CallerSignal("a")
    /\ signals["a"].aborted
    /\ signals["a"].fetch = ControllerSignal("a", 1)
    /\ lastOut["a"].kind = "timeout"
    /\ attempts["a"] = 2
    /\ pc["a"] \in {"sleep", "raised"}

\* ------------------------------------------------------- configuration objects

MaxObjects == 5

\* The state apart from the configuration and its objects.
others ==
    <<pc, opts, retryCount, response, timers, result, error, attempts, waits,
      firstOut, lastOut, kindsSeen, nRetryable, sent, armed, startConfig, ended,
      clock, defaults, called, setLog, norm, signals>>

\* this.config of this client is the object at heap.own.
Configured(h) == config' = h.objects[h.own]

\* const copy = client.getConfig(): { ...this.config } (lines 349-351).
GetConfig ==
    LET copy == Spread(heap, heap.own)
    IN  /\ Len(heap.objects) < MaxObjects
        /\ heap' = [copy.heap EXCEPT !.held = @ \cup {copy.at}, !.last = "getConfig"]
        /\ Configured(heap')
        /\ UNCHANGED <<lastUpdate, others>>

\* copy[key] = v on an object the caller holds.
Mutate(a, key, v) ==
    /\ a \in heap.held
    /\ heap' = [Assign(heap, a, key, v) EXCEPT !.last = "mutate"]
    /\ Configured(heap')
    /\ UNCHANGED <<lastUpdate, others>>

\* new ApiClient(userConfig): this.config = deepMerge(DEFAULT_CONFIG, config)
\* (lines 144-146) of another client.
ConstructOther(userConfig) ==
    LET merged == deepMergeAt(heap, heap.dflt, Literal(userConfig, {}))
    IN  /\ Len(heap.objects) < MaxObjects
        /\ heap.other = 0
        /\ heap' = [merged.heap EXCEPT !.other = merged.at, !.last = "construct"]
        /\ Configured(heap')
        /\ UNCHANGED <<lastUpdate, others>>

\* other.updateConfig(lit) (lines 345-347).
UpdateOther(lit) ==
    LET merged == deepMergeAt(heap, heap.other, lit)
    IN  /\ Len(heap.objects) < MaxObjects
        /\ heap.other # 0
        /\ heap' = [merged.heap EXCEPT !.other = merged.at, !.last = "updateOther"]
        /\ Configured(heap')
        /\ UNCHANGED <<lastUpdate, others>>

\* client.updateConfig(lit): this.config = deepMerge(this.config, newConfig)
\* (lines 345-347).
UpdateOwn(lit) ==
    LET merged == deepMergeAt(heap, heap.own, lit)
    IN  /\ Len(heap.objects) < MaxObjects
        /\ heap' = [merged.heap EXCEPT !.own = merged.at, !.last = "updateConfig"]
        /\ Configured(heap')
        /\ lastUpdate' = [lit |-> lit, before |-> config]
        /\ UNCHANGED others

\* What the caller writes to the copies, and the other client's settings.
Writes == { <<"timeout", 7>>, <<"apiKey", "theirs">> }
OtherConfigs == { [apiKey |-> "other"], [apiKey |-> "other", timeout |-> 20] }
OwnUpdates == { Literal([timeout |-> 20], {}), Literal([retryDelay |-> 10], {"timeout"}) }

\* One client with DEFAULT_CONFIG and its own configuration in memory.
InitObjects ==
    /\ config = Construct([apiKey |-> "key", timeout |-> 50])
    /\ InitDispatch
    /\ InitServices(NoLiterals)
    /\ norm = NoNorm
    /\ heap = Heap(<<DEFAULT_CONFIG, config>>, 1, 2, 0, {}, "none")

NextObjects ==
    \/ GetConfig
    \/ \E a \in heap.held : \E w \in Writes : Mutate(a, w[1], w[2])
    \/ \E u \in OtherConfigs : ConstructOther(u)
    \/ \E lit \in OwnUpdates : UpdateOther(lit)
    \/ \E lit \in OwnUpdates : UpdateOwn(lit)

SpecObjects == InitObjects /\ [][NextObjects]_vars

\* C39: this client's configuration is the same after every call but its own
\* updateConfig (a write to an object getConfig returned, the construction
\* and the update of another client), and DEFAULT_CONFIG is never changed.
C39_OwnConfigOnly ==
    /\ [](heap.objects[heap.dflt] = DEFAULT_CONFIG)
    /\ [][heap'.last # "updateConfig" => config' = config]_vars

\* The caller has written both keys to a copy they got from getConfig, and
\* another client has been constructed; this client's configuration has
\* neither value.
C39_Witness ==
    /\ heap.last = "mutate"
    /\ heap.other # 0
    /\ \E a \in heap.held :
          /\ heap.objects[a].timeout = 7
          /\ heap.objects[a].apiKey = "theirs"
          /\ config.timeout # 7
          /\ config.apiKey = "key"

\* ------------------------------------------------------- defaults kept

\* Service operations called with an options object, their dispatches
\* answered by the transport, and two setDefaults calls at most at any
\* moment before, during or after them.
NextKept ==
    \/ \E op \in Operations : \E o \in ServiceArgs(op) : ServiceCall("a", op, o)
    \/ (\E r \in {OkResponse, ClientErrorResponse} : FetchResponds("a", r))
          /\ UNCHANGED <<clock, facade>>
    \/ ReadBody("a") /\ UNCHANGED <<clock, facade>>
    \/ Settle("a")
    \/ \E s \in Services : \E lit \in DefaultLiterals(s) :
          Sets < 2 /\ SetDefaults(s, lit)

SpecKept == InitServed /\ [][NextKept]_vars

\* C40: no step takes a default that has a value back to undefined, and
\* every step but a setDefaults call leaves every default as it is.
C40_DefaultsStayDefined ==
    [][/\ \A s \in Services : \A k \in DOMAIN defaults[s] :
             defaults[s][k] # Undefined => defaults'[s][k] # Undefined
       /\ setLog' = setLog => defaults' = defaults]_vars

\* The query service was constructed with a default sql; setDefaults was
\* then called with sql: undefined and with sql omitted, and a query
\* operation has ended: the default sql is the one of the construction.
C40_Witness ==
    /\ Len(setLog["query"]) = 3
    /\ "sql" \in DOMAIN setLog["query"][1].given
    /\ \E i \in 2..3 : "sql" \in setLog["query"][i].undefined
    /\ \E i \in 2..3 : setLog["query"][i] = Literal(<<>>, {})
    /\ defaults["query"].sql = setLog["query"][1].given.sql
    /\ called["a"].op = "query"
    /\ called["a"].outcome \in {"resolved", "rejected"}

====
